---- MODULE Spec2Model ----
(***************************************************************************)
(* Burnout monitoring and peer-help alerting of the workforce wellbeing    *)
(* dashboard: BurnoutMonitoringService.tsx (supervisor pass),              *)
(* BurnoutNotificationService.tsx (peer-help pass) and                     *)
(* utils/consistentValues.ts (deterministic synthesis, test scenarios).    *)
(*                                                                         *)
(* Strings are sequences of UTF-16 code units.  Time is counted in minutes *)
(* since 00:00 UTC of a Monday; a synchronous block of code (the code      *)
(* between two awaits) runs at one instant.                                *)
(***************************************************************************)
EXTENDS Integers, Sequences, FiniteSets, TLC

(***************************************************************************)
(* Bounds of the model.                                                    *)
(***************************************************************************)
MaxRoster == 2
MaxPasses == 3
MaxDays == 1
MaxMidTicks == 1
MaxFaults == 1

(***************************************************************************)
(* Program constants.                                                      *)
(***************************************************************************)
MinutesPerDay == 1440
GateMinutes == 5
FreshHours == 24
BurnoutThreshold == 70
OvertimeThreshold == 3
WellbeingLimit == 60
TaskCompletionLimit == 75
MeetingLimit == 15

(***************************************************************************)
(* Strings.                                                                *)
(***************************************************************************)
s_member1 == <<109, 101, 109, 98, 101, 114, 49>>
s_member2 == <<109, 101, 109, 98, 101, 114, 50>>
s_member3 == <<109, 101, 109, 98, 101, 114, 51>>
s_member4 == <<109, 101, 109, 98, 101, 114, 52>>
s_member5 == <<109, 101, 109, 98, 101, 114, 53>>
s_burnout == <<98, 117, 114, 110, 111, 117, 116>>
s_helper == <<104, 101, 108, 112, 101, 114>>
s_struggling == <<115, 116, 114, 117, 103, 103, 108, 105, 110, 103>>
s_productive == <<112, 114, 111, 100, 117, 99, 116, 105, 118, 101>>
s_stressed == <<115, 116, 114, 101, 115, 115, 101, 100>>
s_Helper == <<72, 101, 108, 112, 101, 114>>
s_ab == <<97, 98>>
s_bob == <<98, 111, 98>>
s_Bob == <<66, 111, 98>>
s_empty == <<>>
\* member1@test.com
s_esmwejp == <<101, 115, 109, 119, 101, 106, 112>>
s_member1_test == <<109, 101, 109, 98, 101, 114, 49, 64, 116, 101, 115, 116, 46, 99, 111, 109>>

\* String.prototype.toLowerCase on the ASCII range
ToLowerCase(s) == [i \in 1..Len(s) |-> IF s[i] >= 65 /\ s[i] <= 90 THEN s[i] + 32 ELSE s[i]]

\* String.prototype.includes
Includes(s, pat) ==
    \E k \in 0..(Len(s) - Len(pat)) : \A j \in 1..Len(pat) : s[k + j] = pat[j]

\* Number.prototype.toString for a non-negative integer
RECURSIVE Digits(_)
Digits(n) == IF n < 10 THEN <<48 + n>> ELSE Digits(n \div 10) \o <<48 + (n % 10)>>

(***************************************************************************)
(* 32-bit integers are kept as two 16-bit limbs [hi, lo] of the two's      *)
(* complement bit pattern.                                                 *)
(***************************************************************************)
Limb == 65536

\* hash << 5
Shl5(h) ==
    LET lo32 == h.lo * 32
    IN [hi |-> (h.hi * 32 + (lo32 \div Limb)) % Limb, lo |-> lo32 % Limb]

\* a - b, wrapped to 32 bits
Sub32(a, b) ==
    LET borrow == IF a.lo < b.lo THEN 1 ELSE 0
    IN [hi |-> (a.hi - b.hi - borrow + 2 * Limb) % Limb,
        lo |-> (a.lo - b.lo + Limb) % Limb]

\* a + c for a code unit c, wrapped to 32 bits (hash & hash)
Add32(a, c) ==
    LET lo32 == a.lo + c
    IN [hi |-> (a.hi + (lo32 \div Limb)) % Limb, lo |-> lo32 % Limb]

IsNegative32(h) == h.hi >= Limb \div 2

\* the bit pattern of -h
Neg32(h) == Sub32([hi |-> 0, lo |-> 0], h)

\* variant: the absolute value is taken in 32 bits, where that of -2^31 is -2^31
AbsMod_Int32(h, n) ==
    LET a == IF IsNegative32(h) THEN Neg32(h) ELSE h
        r == (((a.hi % n) * (Limb % n)) + a.lo) % n
    IN IF IsNegative32(a) THEN 0 - r ELSE r

\* Math.abs(hash) % n; Math.abs(-2^31) is 2^31, which is [hi |-> 32768, lo |-> 0]
AbsMod(h, n) ==
    LET a == IF IsNegative32(h) THEN Neg32(h) ELSE h
    IN (((a.hi % n) * (Limb % n)) + a.lo) % n

\* variant: the hash is not subtracted from its shift, hash * 32 + charCode
RECURSIVE HashFrom_NoSub(_, _, _)
HashFrom_NoSub(h, str, i) ==
    IF i > Len(str) THEN h
    ELSE HashFrom_NoSub(Add32(Shl5(h), str[i]), str, i + 1)

\* lines 7-12: the loop over the code units of the string
RECURSIVE HashFrom(_, _, _)
HashFrom(h, str, i) ==
    IF i > Len(str) THEN h
    ELSE HashFrom(Add32(Sub32(Shl5(h), h), str[i]), str, i + 1)

HashOf(str) == HashFrom([hi |-> 0, lo |-> 0], str, 1)

generateConsistentValue(email, seed, min, max) ==
    min + AbsMod(HashOf(email \o Digits(seed)), max - min + 1)

(***************************************************************************)
(* Test scenarios.                                                         *)
(***************************************************************************)
\* a scenario snapshot carries matched = TRUE; NoScenario stands for the null result
Scenario1 == [matched |-> TRUE, wellbeingScore |-> 45, stressLevel |-> "high", taskCompletionRate |-> 55,
              isExhausted |-> TRUE, meetingHours |-> 18, overtimeCount |-> 3]
Scenario2 == [matched |-> TRUE, wellbeingScore |-> 85, stressLevel |-> "low", taskCompletionRate |-> 92,
              isExhausted |-> FALSE, meetingHours |-> 10, overtimeCount |-> 1]
Scenario3 == [matched |-> TRUE, wellbeingScore |-> 68, stressLevel |-> "medium", taskCompletionRate |-> 65,
              isExhausted |-> FALSE, meetingHours |-> 14, overtimeCount |-> 2]
Scenario4 == [matched |-> TRUE, wellbeingScore |-> 78, stressLevel |-> "low", taskCompletionRate |-> 88,
              isExhausted |-> FALSE, meetingHours |-> 12, overtimeCount |-> 0]
Scenario5 == [matched |-> TRUE, wellbeingScore |-> 55, stressLevel |-> "high", taskCompletionRate |-> 82,
              isExhausted |-> TRUE, meetingHours |-> 16, overtimeCount |-> 4]

NoScenario == [matched |-> FALSE, wellbeingScore |-> 0, stressLevel |-> "low", taskCompletionRate |-> 0,
               isExhausted |-> FALSE, meetingHours |-> 0, overtimeCount |-> 0]

\* variant: the pair (member2|helper) is looked for before the pair (member1|burnout)
getTestScenarioValues_HelperFirst(email) ==
    LET lowerEmail == ToLowerCase(email)
    IN IF Includes(lowerEmail, s_member2) \/ Includes(lowerEmail, s_helper) THEN Scenario2
       ELSE IF Includes(lowerEmail, s_member1) \/ Includes(lowerEmail, s_burnout) THEN Scenario1
       ELSE IF Includes(lowerEmail, s_member3) \/ Includes(lowerEmail, s_struggling) THEN Scenario3
       ELSE IF Includes(lowerEmail, s_member4) \/ Includes(lowerEmail, s_productive) THEN Scenario4
       ELSE IF Includes(lowerEmail, s_member5) \/ Includes(lowerEmail, s_stressed) THEN Scenario5
       ELSE NoScenario

\* lines 23-88
getTestScenarioValues(email) ==
    LET lowerEmail == ToLowerCase(email)
    IN IF Includes(lowerEmail, s_member1) \/ Includes(lowerEmail, s_burnout) THEN Scenario1
       ELSE IF Includes(lowerEmail, s_member2) \/ Includes(lowerEmail, s_helper) THEN Scenario2
       ELSE IF Includes(lowerEmail, s_member3) \/ Includes(lowerEmail, s_struggling) THEN Scenario3
       ELSE IF Includes(lowerEmail, s_member4) \/ Includes(lowerEmail, s_productive) THEN Scenario4
       ELSE IF Includes(lowerEmail, s_member5) \/ Includes(lowerEmail, s_stressed) THEN Scenario5
       ELSE NoScenario

StressLevels == <<"low", "medium", "high">>

getConsistentStressLevel(email) ==
    LET scenario == getTestScenarioValues(email)
    IN IF scenario.matched THEN scenario.stressLevel
       ELSE StressLevels[generateConsistentValue(email, 999, 0, 2) + 1]

(***************************************************************************)
(* Time.  Day 0 is a Monday; a date string YYYY-MM-DD is its day number    *)
(* (ISO date strings compare as their days do).                            *)
(***************************************************************************)
FirstDay == 13
Offsets == {0, 5, 1436}
TimeZones == {0, 330}

Times == {d * MinutesPerDay + o : d \in FirstDay..(FirstDay + MaxDays), o \in Offsets}

\* new Date(t).toISOString().split('T')[0]
IsoDate(t) == t \div MinutesPerDay

\* Date.prototype.getDay in the local time zone (0 is Sunday)
GetDay(t, zone) == (((t + zone) \div MinutesPerDay) + 1) % 7

\* weekStart of lines 43-47: local midnight of the Monday of the local week
WeekStartOf(t, zone) ==
    LET currentDay == GetDay(t, zone)
        mondayOffset == IF currentDay = 0 THEN -6 ELSE 1 - currentDay
    IN (((t + zone) \div MinutesPerDay) + mondayOffset) * MinutesPerDay - zone

(***************************************************************************)
(* The users collection.  A document carries its id, the email field (or   *)
(* none), the analytics fields it has, and the dates of the member's       *)
(* overtime_records.  Firestore returns the documents of a query in the    *)
(* order of their ids.                                                     *)
(***************************************************************************)
NoAnalytics == [has |-> {}, wellbeingScore |-> 0, stressLevel |-> "low", isExhausted |-> FALSE,
                meetingHours |-> 0, taskCompletionRate |-> 0]

Docs == <<
    [id |-> "u1", hasEmail |-> TRUE, email |-> s_member1, analytics |-> NoAnalytics,
     overtime |-> <<>>],
    [id |-> "u2", hasEmail |-> TRUE, email |-> s_Helper, analytics |-> NoAnalytics,
     overtime |-> <<13>>],
    [id |-> "u3", hasEmail |-> TRUE, email |-> s_ab,
     analytics |-> [NoAnalytics EXCEPT !.has = {"wellbeingScore", "meetingHours"},
                                       !.wellbeingScore = 25, !.meetingHours = 9],
     overtime |-> <<8, 12, 13>>] >>

RECURSIVE Pick(_, _)
Pick(seq, S) ==
    IF seq = <<>> THEN <<>>
    ELSE LET rest == Pick(Tail(seq), {i - 1 : i \in S \ {1}})
         IN IF 1 \in S THEN <<Head(seq)>> \o rest ELSE rest

\* the results the roster query can have: up to MaxRoster documents, in id order
Rosters == {Pick(Docs, S) : S \in {T \in SUBSET (1..Len(Docs)) : Cardinality(T) <= MaxRoster}}

\* memberData.email || ''
EmailOf(doc) == IF doc.hasEmail THEN doc.email ELSE s_empty

(***************************************************************************)
(* Risk evaluation of one roster document (monitorBurnoutLevels).          *)
(***************************************************************************)
WellbeingOf(email, analytics) ==
    LET testScenario == getTestScenarioValues(email)
    IN IF testScenario.matched THEN testScenario.wellbeingScore
       ELSE IF "wellbeingScore" \in analytics.has THEN analytics.wellbeingScore
       ELSE generateConsistentValue(email, 3, 50, 90)

StressOf(email, analytics) ==
    LET testScenario == getTestScenarioValues(email)
    IN IF testScenario.matched THEN testScenario.stressLevel
       ELSE IF "stressLevel" \in analytics.has THEN analytics.stressLevel
       ELSE getConsistentStressLevel(email)

ExhaustedOf(email, analytics) ==
    LET testScenario == getTestScenarioValues(email)
    IN IF testScenario.matched THEN testScenario.isExhausted
       ELSE IF "isExhausted" \in analytics.has THEN analytics.isExhausted
       ELSE generateConsistentValue(email, 4, 0, 100) < 30

MeetingHoursOf(email, analytics) ==
    IF "meetingHours" \in analytics.has THEN analytics.meetingHours
    ELSE generateConsistentValue(email, 5, 8, 18)

Min(a, b) == IF a < b THEN a ELSE b
Max(a, b) == IF a > b THEN a ELSE b

\* variant: the risk is not clamped to 100
BurnoutRiskOf_NoClamp(wellbeingScore, meetingHours, isExhausted) ==
    Max(0, 100 - wellbeingScore
             + (IF meetingHours > MeetingLimit THEN 20 ELSE 0)
             + (IF isExhausted THEN 30 ELSE 0))

\* variant: the risk is not raised to 0
BurnoutRiskOf_NoFloor(wellbeingScore, meetingHours, isExhausted) ==
    Min(100, 100 - wellbeingScore
               + (IF meetingHours > MeetingLimit THEN 20 ELSE 0)
               + (IF isExhausted THEN 30 ELSE 0))

BurnoutRiskOf(wellbeingScore, meetingHours, isExhausted) ==
    Min(100, Max(0, 100 - wellbeingScore
                      + (IF meetingHours > MeetingLimit THEN 20 ELSE 0)
                      + (IF isExhausted THEN 30 ELSE 0)))

\* variant: exhaustion alone does not count as burnt out
IsBurntOutOf_NoExhausted(wellbeingScore, stressLevel, isExhausted) ==
    wellbeingScore < WellbeingLimit \/ stressLevel = "high"

\* variant: the wellbeing limit itself counts as burnt out
IsBurntOutOf_AtMost(wellbeingScore, stressLevel, isExhausted) ==
    wellbeingScore <= WellbeingLimit \/ stressLevel = "high" \/ isExhausted

IsBurntOutOf(wellbeingScore, stressLevel, isExhausted) ==
    wellbeingScore < WellbeingLimit \/ stressLevel = "high" \/ isExhausted

\* the loop variables of one iteration, lines 62-91
Evaluate(doc) ==
    LET memberEmail == EmailOf(doc)
        wellbeingScore == WellbeingOf(memberEmail, doc.analytics)
        stressLevel == StressOf(memberEmail, doc.analytics)
        isExhausted == ExhaustedOf(memberEmail, doc.analytics)
        meetingHours == MeetingHoursOf(memberEmail, doc.analytics)
    IN [memberId |-> doc.id, memberEmail |-> memberEmail,
        wellbeingScore |-> wellbeingScore, stressLevel |-> stressLevel,
        isExhausted |-> isExhausted, meetingHours |-> meetingHours,
        burnoutRisk |-> BurnoutRiskOf(wellbeingScore, meetingHours, isExhausted),
        isBurntOut |-> IsBurntOutOf(wellbeingScore, stressLevel, isExhausted)]

NoMember == [memberId |-> "", memberEmail |-> s_empty, wellbeingScore |-> 0, stressLevel |-> "low",
             isExhausted |-> FALSE, meetingHours |-> 0, burnoutRisk |-> 0, isBurntOut |-> FALSE]

\* snapshot.size of the overtime query, lines 196-204
OvertimeCount(doc, weekStartT) ==
    Cardinality({i \in 1..Len(doc.overtime) : doc.overtime[i] >= IsoDate(weekStartT)})

\* the catch block of getOvertimeThisWeek, lines 209-218
OvertimeFallback(email) ==
    IF Includes(email, s_member1) THEN 3
    ELSE IF Includes(email, s_member5) THEN 4
    ELSE IF Includes(email, s_member2) THEN 1
    ELSE IF Includes(email, s_member3) THEN 2
    ELSE IF Includes(email, s_member4) THEN 0
    ELSE generateConsistentValue(email, 15, 0, 4)

\* Number.prototype.toString / parseInt of the last-check marker
RECURSIVE ParseInt(_)
ParseInt(str) ==
    IF str = <<>> THEN 0 ELSE ParseInt(SubSeq(str, 1, Len(str) - 1)) * 10 + (str[Len(str)] - 48)

(***************************************************************************)
(* State.                                                                  *)
(***************************************************************************)
VARIABLES
    clock,          \* Date.now(), minutes
    tz,             \* offset of the browser's time zone, minutes
    dst,            \* the daylight-saving change of the zone, if it has one
    roster,         \* result of the users query for the team
    user,           \* useAuth().user
    notifications,  \* Firestore collection notifications, in creation order
    emails,         \* Firestore collection email_notifications, in creation order
    lsLastCheck,    \* localStorage burnout_monitoring_last_check_<user.id>
    lsEmailKeys,    \* localStorage keys burnout_email_... and overtime_email_...
    lsPeerCheck,    \* localStorage keys burnout_check_<user.id>_<today>
    pc,             \* the await at which the pass in flight is suspended
    now,            \* local now of the pass
    weekStart,      \* local weekStart of the pass
    idx,            \* position of the loop in querySnapshot.docs
    cur,            \* the loop variables of the current iteration
    pending,        \* the document handed to the addDoc in flight
    today,          \* local today of sendBurnoutThresholdEmail
    ot,             \* overtimeThisWeek
    outcome,        \* how the last invocation ended
    failures,       \* the calls that failed during the last pass
    evaluated,      \* positions of the members evaluated during the last pass
    passes,         \* number of passes started
    midTicks,       \* number of clock changes seen while a pass was suspended
    faults,         \* number of failed calls and abandoned passes so far
    lostKeys,       \* dedup keys of emails that were written without their key
    startInfo,      \* what the pass in flight found when it started
    prevRun,        \* summary of the pass before the last one
    lastRun,        \* summary of the last pass that ended
    call,           \* arguments of the last call of generateConsistentValue by a view
    result,         \* the value that call returned
    other,          \* the locals of a second invocation of the mounted service, in flight
    overlap,        \* dedup keys that one invocation checked between check and write of the other
    cleared         \* "Clear Today's Monitoring Check" was clicked since the last invocation

vars == <<clock, tz, dst, roster, user, notifications, emails, lsLastCheck, lsEmailKeys, lsPeerCheck,
          pc, now, weekStart, idx, cur, pending, today, ot, outcome, failures, evaluated,
          passes, midTicks, faults, lostKeys, startInfo, prevRun, lastRun, call, result,
          other, overlap, cleared>>

\* a zone without daylight saving
NoShift == [shift |-> 0, at |-> 0]

\* Date.prototype.getTimezoneOffset, negated: the offset of local time at the instant t; a
\* zone with daylight saving is dst.shift minutes ahead of tz before the instant dst.at
OffsetAt(t) == IF t < dst.at THEN tz + dst.shift ELSE tz

\* setHours(0, 0, 0, 0) on a local date: the instant at which that local day begins
LocalMidnight(day) ==
    LET early == day * MinutesPerDay - (tz + dst.shift)
    IN IF early < dst.at THEN early ELSE day * MinutesPerDay - tz

\* variant: Sunday is not handled, the offset is 1 - currentDay on every day
LocalWeekStart_NoSunday(t) ==
    LET currentDay == GetDay(t, OffsetAt(t))
        mondayOffset == 1 - currentDay
    IN LocalMidnight(((t + OffsetAt(t)) \div MinutesPerDay) + mondayOffset)

\* weekStart of lines 43-47 in the browser's zone: getDay, setDate and setHours work on
\* local date fields
LocalWeekStart(t) ==
    LET currentDay == GetDay(t, OffsetAt(t))
        mondayOffset == IF currentDay = 0 THEN -6 ELSE 1 - currentDay
    IN LocalMidnight(((t + OffsetAt(t)) \div MinutesPerDay) + mondayOffset)

SupervisorUser == [id |-> "s1", role |-> "supervisor", hasEmail |-> TRUE, email |-> <<115>>,
                   analytics |-> NoAnalytics]

NoPending == [type |-> "none"]
NoRun == [valid |-> FALSE, start |-> 0, end |-> 0, week |-> 0, nN |-> 0, nE |-> 0,
          noFresh |-> FALSE, fromEmpty |-> FALSE]
NoCall == [email |-> s_empty, seed |-> 0, min |-> 0, max |-> 0]
NoStart == [noFresh |-> FALSE, fromEmpty |-> FALSE, marker0 |-> <<>>, keys0 |-> {}]

\* the locals of an invocation, and what it has observed so far
Context == [pc |-> pc, now |-> now, weekStart |-> weekStart, idx |-> idx, cur |-> cur,
            pending |-> pending, today |-> today, ot |-> ot, outcome |-> outcome,
            failures |-> failures, evaluated |-> evaluated, startInfo |-> startInfo]

NoContext == [pc |-> "idle", now |-> 0, weekStart |-> 0, idx |-> 0, cur |-> NoMember,
              pending |-> NoPending, today |-> 0, ot |-> 0, outcome |-> "none",
              failures |-> {}, evaluated |-> <<>>, startInfo |-> NoStart]

\* user.email || ''
UserEmail(u) == IF u.hasEmail THEN u.email ELSE s_empty

IsSupervisorAlert(n, userId, memberId) ==
    n.type = "supervisor_burnout_alert" /\ n.userId = userId /\ n.burnoutMemberId = memberId

\* variant: the existing notifications are not consulted
shouldCreateNotification_Always(nowT, userId, memberId) == TRUE

\* variant: the existing notifications are compared against half a day
shouldCreateNotification_HalfDay(nowT, userId, memberId) ==
    ~ \E i \in 1..Len(notifications) :
        /\ IsSupervisorAlert(notifications[i], userId, memberId)
        /\ (nowT - notifications[i].timestamp) < 12 * 60

\* variant: the existing notifications are compared against one hour
shouldCreateNotification_Hour(nowT, userId, memberId) ==
    ~ \E i \in 1..Len(notifications) :
        /\ IsSupervisorAlert(notifications[i], userId, memberId)
        /\ (nowT - notifications[i].timestamp) < 60

\* variant: only the notifications written since the pass started are considered
shouldCreateNotification_ThisPass(nowT, userId, memberId) ==
    ~ \E i \in 1..Len(notifications) :
        /\ IsSupervisorAlert(notifications[i], userId, memberId)
        /\ notifications[i].timestamp >= nowT
        /\ (nowT - notifications[i].timestamp) < FreshHours * 60

\* lines 106-117: no existing notification of the pair is less than 24 hours old
shouldCreateNotification(nowT, userId, memberId) ==
    ~ \E i \in 1..Len(notifications) :
        /\ IsSupervisorAlert(notifications[i], userId, memberId)
        /\ (nowT - notifications[i].timestamp) < FreshHours * 60

BurnoutEmailKey(memberEmail, day) == <<"burnout_email", memberEmail, day>>
OvertimeEmailKey(memberEmail, weekKey) == <<"overtime_email", memberEmail, weekKey>>

\* the locals and stores a continuation of the pass may change
Locals == [pc |-> pc, idx |-> idx, cur |-> cur, pending |-> pending, today |-> today, ot |-> ot,
           keys |-> lsEmailKeys, marker |-> lsLastCheck, outcome |-> outcome,
           evaluated |-> evaluated]

(***************************************************************************)
(* The synchronous stretches of monitorBurnoutLevels between two awaits.   *)
(***************************************************************************)
\* line 156: getOvertimeThisWeek issues its query
getOvertimeThisWeek(L) == [L EXCEPT !.pc = "overtime"]

\* the email handed to addDoc by sendBurnoutThresholdEmail
ThresholdEmail(L) ==
    [type |-> "burnout_threshold_alert", to |-> UserEmail(user),
     memberEmail |-> L.cur.memberEmail, burnoutRisk |-> L.cur.burnoutRisk,
     timestamp |-> clock]

\* variant: the email is sent without looking at its dedup key
sendBurnoutThresholdEmail_NoKeyCheck(L) ==
    IF L.cur.burnoutRisk > BurnoutThreshold
    THEN [L EXCEPT !.pc = "burnoutEmail", !.today = IsoDate(clock),
                   !.pending = ThresholdEmail(L)]
    ELSE getOvertimeThisWeek(L)

\* variant: the dedup key is set before the email is written
sendBurnoutThresholdEmail_KeyFirst(L) ==
    IF L.cur.burnoutRisk > BurnoutThreshold
    THEN IF BurnoutEmailKey(L.cur.memberEmail, IsoDate(clock)) \in L.keys
         THEN getOvertimeThisWeek(L)
         ELSE [L EXCEPT !.pc = "burnoutEmail", !.today = IsoDate(clock),
                        !.keys = @ \cup {BurnoutEmailKey(L.cur.memberEmail, IsoDate(clock))},
                        !.pending = ThresholdEmail(L)]
    ELSE getOvertimeThisWeek(L)

\* variant: the threshold itself triggers the email
sendBurnoutThresholdEmail_AtLeast(L) ==
    IF L.cur.burnoutRisk >= BurnoutThreshold
    THEN IF BurnoutEmailKey(L.cur.memberEmail, IsoDate(clock)) \in L.keys
         THEN getOvertimeThisWeek(L)
         ELSE [L EXCEPT !.pc = "burnoutEmail", !.today = IsoDate(clock),
                        !.pending = ThresholdEmail(L)]
    ELSE getOvertimeThisWeek(L)

\* lines 144-153 and 232-276: CHECK 2 up to the addDoc of the email
sendBurnoutThresholdEmail(L) ==
    IF L.cur.burnoutRisk > BurnoutThreshold
    THEN IF BurnoutEmailKey(L.cur.memberEmail, IsoDate(clock)) \in L.keys
         THEN getOvertimeThisWeek(L)
         ELSE [L EXCEPT !.pc = "burnoutEmail", !.today = IsoDate(clock),
                        !.pending = ThresholdEmail(L)]
    ELSE getOvertimeThisWeek(L)

\* lines 61-105: one loop iteration up to the query of the existing notifications
StageMember(L, i) ==
    LET c == Evaluate(roster[i])
        L1 == [L EXCEPT !.idx = i, !.cur = c, !.evaluated = Append(@, i),
                        !.pending = NoPending, !.ot = 0]
    IN IF c.isBurntOut THEN [L1 EXCEPT !.pc = "existing"] ELSE sendBurnoutThresholdEmail(L1)

\* lines 168-171: the pass completes and sets the last-check marker
StageFinish(L) == [L EXCEPT !.pc = "idle", !.marker = Digits(now), !.outcome = "completed"]

\* variant: the loop ends one document early
StageNext_StopEarly(L) ==
    IF L.idx < Len(roster) - 1 THEN StageMember(L, L.idx + 1) ELSE StageFinish(L)

\* line 61: the loop goes to the next document, or ends
StageNext(L) == IF L.idx < Len(roster) THEN StageMember(L, L.idx + 1) ELSE StageFinish(L)

\* the email handed to addDoc by sendOvertimeAlertEmail
OvertimeEmail(L) ==
    [type |-> "overtime_alert", to |-> UserEmail(user), memberEmail |-> L.cur.memberEmail,
     overtimeCount |-> L.ot, weekStart |-> weekStart, timestamp |-> clock]

\* variant: the email is sent without looking at its dedup key
sendOvertimeAlertEmail_NoKeyCheck(L) ==
    IF L.ot >= OvertimeThreshold
    THEN [L EXCEPT !.pc = "overtimeEmail", !.pending = OvertimeEmail(L)]
    ELSE StageNext(L)

\* variant: the third overtime does not trigger the email yet
sendOvertimeAlertEmail_MoreThan(L) ==
    IF L.ot > OvertimeThreshold
    THEN IF OvertimeEmailKey(L.cur.memberEmail, IsoDate(weekStart)) \in L.keys
         THEN StageNext(L)
         ELSE [L EXCEPT !.pc = "overtimeEmail", !.pending = OvertimeEmail(L)]
    ELSE StageNext(L)

\* lines 157-165 and 297-354: CHECK 3 up to the addDoc of the email
sendOvertimeAlertEmail(L) ==
    IF L.ot >= OvertimeThreshold
    THEN IF OvertimeEmailKey(L.cur.memberEmail, IsoDate(weekStart)) \in L.keys
         THEN StageNext(L)
         ELSE [L EXCEPT !.pc = "overtimeEmail", !.pending = OvertimeEmail(L)]
    ELSE StageNext(L)

\* variant: the marker is set although the pass did not complete
StageAbort_SetsMarker(L) ==
    [L EXCEPT !.pc = "idle", !.marker = Digits(now), !.outcome = "aborted"]

\* lines 172-174: the catch of monitorBurnoutLevels
StageAbort(L) == [L EXCEPT !.pc = "idle", !.outcome = "aborted"]

\* lines 119-136: the notification is built and handed to addDoc, or skipped
StageNotify(L) ==
    IF shouldCreateNotification(now, user.id, L.cur.memberId)
    THEN [L EXCEPT !.pc = "addNotif",
                   !.pending = [type |-> "supervisor_burnout_alert",
                                userId |-> user.id,
                                burnoutMemberId |-> L.cur.memberId,
                                burnoutMemberEmail |-> L.cur.memberEmail,
                                burnoutRisk |-> L.cur.burnoutRisk,
                                wellbeingScore |-> L.cur.wellbeingScore,
                                timestamp |-> clock]]
    ELSE sendBurnoutThresholdEmail(L)

Summary(L, notifs, mails, fails) ==
    [valid |-> TRUE, start |-> now, end |-> clock, week |-> weekStart,
     nN |-> Len(notifs), nE |-> Len(mails),
     noFresh |-> startInfo.noFresh, fromEmpty |-> startInfo.fromEmpty]

\* the dedup key that belongs to the email handed to the addDoc in flight
PendingKey ==
    IF pc = "burnoutEmail" THEN BurnoutEmailKey(cur.memberEmail, today)
    ELSE OvertimeEmailKey(cur.memberEmail, IsoDate(weekStart))

\* the awaits at which an alert has passed its dedup check and its write is in flight
Writing == {"addNotif", "burnoutEmail", "overtimeEmail"}

\* what the dedup check of the write in flight has looked at: the notifications of the pair
\* (lines 98-103), or the key of the email (lines 235 and 300)
CheckedKey(at, member, day, week) ==
    IF at = "addNotif" THEN <<"supervisor_burnout_alert", user.id, member.memberId>>
    ELSE IF at = "burnoutEmail" THEN BurnoutEmailKey(member.memberEmail, day)
    ELSE OvertimeEmailKey(member.memberEmail, IsoDate(week))

\* a call of the pass fails that had not failed before; a rejection inside the catch block
\* of getOvertimeThisWeek belongs to the failure of that call
NewFault(fails) == \E f \in fails \ failures : f[1] # "fallback"

\* a continuation has run: its effects on the locals and the stores
Commit(L, notifs, mails, fails) ==
    /\ lostKeys' = IF Len(mails) > Len(emails) /\ PendingKey \notin L.keys
                   THEN lostKeys \cup {PendingKey} ELSE lostKeys
    /\ (NewFault(fails) => faults < MaxFaults)
    /\ faults' = IF NewFault(fails) THEN faults + 1 ELSE faults
    /\ notifications' = notifs
    /\ emails' = mails
    /\ failures' = fails
    /\ lsEmailKeys' = L.keys
    /\ lsLastCheck' = L.marker
    /\ outcome' = L.outcome
    /\ evaluated' = L.evaluated
    /\ pc' = L.pc
    /\ IF L.pc = "idle"
       THEN /\ idx' = 0 /\ cur' = NoMember /\ pending' = NoPending /\ today' = 0 /\ ot' = 0
            /\ now' = 0 /\ weekStart' = 0
            /\ IF L.outcome = "completed" /\ fails = {}
               THEN prevRun' = lastRun /\ lastRun' = Summary(L, notifs, mails, fails)
               ELSE prevRun' = NoRun /\ lastRun' = NoRun
            /\ UNCHANGED startInfo
       ELSE /\ idx' = L.idx /\ cur' = L.cur /\ pending' = L.pending /\ today' = L.today
            /\ ot' = L.ot
            /\ UNCHANGED <<now, weekStart, startInfo, prevRun, lastRun>>
    /\ overlap' = IF L.pc \in Writing /\ other.pc \in Writing
                        /\ CheckedKey(L.pc, L.cur, L.today, weekStart)
                                = CheckedKey(other.pc, other.cur, other.today, other.weekStart)
                   THEN overlap \cup {CheckedKey(L.pc, L.cur, L.today, weekStart)}
                   ELSE overlap
    /\ UNCHANGED <<clock, tz, dst, roster, user, lsPeerCheck, passes, midTicks, call, result,
                   other, cleared>>

(***************************************************************************)
(* Supervisor monitoring pass: monitorBurnoutLevels.                       *)
(***************************************************************************)
\* lines 23-57: the invocation (mount or timer), its gate, and the roster query
monitorBurnoutLevels ==
    /\ pc = "idle"
    /\ user.role = "supervisor"
    /\ IF lsLastCheck # <<>> /\ (clock - ParseInt(lsLastCheck)) < GateMinutes
       THEN /\ outcome' = "gated"
            /\ failures' = {}
            /\ evaluated' = <<>>
            /\ cleared' = FALSE
            /\ UNCHANGED <<clock, tz, dst, roster, user, notifications, emails, lsLastCheck,
                           lsEmailKeys, lsPeerCheck, pc, now, weekStart, idx, cur, pending,
                           today, ot, passes, midTicks, faults, lostKeys, startInfo,
                           prevRun, lastRun, call, result, other, overlap>>
       ELSE /\ passes < MaxPasses
            /\ passes' = passes + 1
            /\ pc' = "roster"
            /\ now' = clock
            /\ weekStart' = LocalWeekStart(clock)
            /\ outcome' = "running"
            /\ failures' = {}
            /\ evaluated' = <<>>
            /\ startInfo' =
                   [noFresh |-> \A i \in 1..Len(notifications) :
                                    notifications[i].type = "supervisor_burnout_alert"
                                        => (clock - notifications[i].timestamp) >= FreshHours * 60,
                    fromEmpty |-> notifications = <<>> /\ emails = <<>> /\ lsEmailKeys = {},
                    marker0 |-> lsLastCheck, keys0 |-> lsEmailKeys]
            /\ cleared' = FALSE
            /\ UNCHANGED <<clock, tz, dst, roster, user, notifications, emails, lsLastCheck,
                           lsEmailKeys, lsPeerCheck, idx, cur, pending, today, ot, midTicks,
                           faults, lostKeys, prevRun, lastRun, call, result, other, overlap>>

\* line 57: the roster query resolves or rejects
RosterResolved ==
    /\ pc = "roster"
    /\ \E ok \in BOOLEAN :
        IF ok THEN Commit(StageNext(Locals), notifications, emails, failures)
        ELSE Commit(StageAbort(Locals), notifications, emails, failures \cup {<<"roster", idx>>})

\* line 105: the query of the existing notifications resolves or rejects
ExistingResolved ==
    /\ pc = "existing"
    /\ \E ok \in BOOLEAN :
        IF ok THEN Commit(StageNotify(Locals), notifications, emails, failures)
        ELSE Commit(StageAbort(Locals), notifications, emails, failures \cup {<<"existing", idx>>})

\* line 121: the addDoc of the supervisor notification resolves or rejects
AddNotifResolved ==
    /\ pc = "addNotif"
    /\ \E ok \in BOOLEAN :
        IF ok THEN Commit(sendBurnoutThresholdEmail(Locals), Append(notifications, pending), emails, failures)
        ELSE Commit(StageAbort(Locals), notifications, emails, failures \cup {<<"notification", idx>>})

\* lines 242-284: the addDoc of the threshold email resolves or rejects; then setItem
BurnoutEmailResolved ==
    /\ pc = "burnoutEmail"
    /\ \E ok \in BOOLEAN, setOk \in BOOLEAN :
        /\ (~ok => setOk)
        /\ IF ok
           THEN IF setOk
                THEN Commit(getOvertimeThisWeek([Locals EXCEPT
                                !.keys = @ \cup {BurnoutEmailKey(cur.memberEmail, today)}]),
                            notifications, Append(emails, pending), failures)
                ELSE Commit(getOvertimeThisWeek(Locals), notifications, Append(emails, pending),
                            failures \cup {<<"setItem", idx>>})
           ELSE Commit(getOvertimeThisWeek(Locals), notifications, emails,
                       failures \cup {<<"burnoutEmail", idx>>})

\* lines 203-208: the overtime query resolves, or rejects into the catch block
OvertimeResolved ==
    /\ pc = "overtime"
    /\ \E ok \in BOOLEAN :
        IF ok
        THEN Commit(sendOvertimeAlertEmail([Locals EXCEPT !.ot = OvertimeCount(roster[idx], weekStart)]),
                    notifications, emails, failures)
        ELSE Commit([Locals EXCEPT !.pc = "fallback"], notifications, emails,
                    failures \cup {<<"overtimeQuery", idx>>})

\* lines 208-218: the getDoc of the catch block resolves or rejects
FallbackResolved ==
    /\ pc = "fallback"
    /\ \E ok \in BOOLEAN :
        IF ok
        THEN Commit(sendOvertimeAlertEmail([Locals EXCEPT !.ot = OvertimeFallback(EmailOf(roster[idx]))]),
                    notifications, emails, failures)
        ELSE Commit(StageAbort(Locals), notifications, emails, failures \cup {<<"fallback", idx>>})

\* lines 310-362: the addDoc of the overtime email resolves or rejects; then setItem
OvertimeEmailResolved ==
    /\ pc = "overtimeEmail"
    /\ \E ok \in BOOLEAN, setOk \in BOOLEAN :
        /\ (~ok => setOk)
        /\ IF ok
           THEN IF setOk
                THEN Commit(StageNext([Locals EXCEPT
                                !.keys = @ \cup {OvertimeEmailKey(cur.memberEmail, IsoDate(weekStart))}]),
                            notifications, Append(emails, pending), failures)
                ELSE Commit(StageNext(Locals), notifications, Append(emails, pending),
                            failures \cup {<<"setItem", idx>>})
           ELSE Commit(StageNext(Locals), notifications, emails,
                       failures \cup {<<"overtimeEmail", idx>>})

\* the page is closed while the pass is suspended; a write in flight may have been applied
Abandon ==
    /\ pc \in {"roster", "existing", "addNotif", "burnoutEmail", "overtime", "fallback",
               "overtimeEmail"}
    /\ \E applied \in BOOLEAN :
        /\ (applied => pc \in {"addNotif", "burnoutEmail", "overtimeEmail"})
        /\ Commit([Locals EXCEPT !.pc = "idle", !.outcome = "abandoned"],
                  IF applied /\ pc = "addNotif" THEN Append(notifications, pending)
                  ELSE notifications,
                  IF applied /\ pc \in {"burnoutEmail", "overtimeEmail"}
                  THEN Append(emails, pending) ELSE emails,
                  failures \cup {<<"abandoned", idx>>})

\* an invocation is suspended at an await
InFlight == pc # "idle" \/ other.pc # "idle"

\* time passes: between passes by any amount, while a pass is suspended to the next instant
Tick ==
    /\ \E t \in Times :
        /\ t > clock
        /\ clock' = t
        /\ (InFlight => \A t2 \in Times : t2 > clock => t2 >= t)
    /\ IF ~InFlight THEN midTicks' = midTicks
       ELSE midTicks < MaxMidTicks /\ midTicks' = midTicks + 1
    /\ UNCHANGED <<tz, dst, roster, user, notifications, emails, lsLastCheck, lsEmailKeys,
                   lsPeerCheck, pc, now, weekStart, idx, cur, pending, today, ot, outcome,
                   failures, evaluated, passes, faults, lostKeys, startInfo, prevRun, lastRun,
                   call, result,
                   other, overlap, cleared>>

Init ==
    /\ clock \in Times
    /\ tz \in TimeZones
    /\ roster \in Rosters
    /\ user = SupervisorUser
    /\ notifications = <<>>
    /\ emails = <<>>
    /\ lsLastCheck = <<>>
    /\ lsEmailKeys = {}
    /\ lsPeerCheck = {}
    /\ pc = "idle"
    /\ now = 0
    /\ weekStart = 0
    /\ idx = 0
    /\ cur = NoMember
    /\ pending = NoPending
    /\ today = 0
    /\ ot = 0
    /\ outcome = "none"
    /\ failures = {}
    /\ evaluated = <<>>
    /\ passes = 0
    /\ midTicks = 0
    /\ faults = 0
    /\ lostKeys = {}
    /\ startInfo = NoStart
    /\ prevRun = NoRun
    /\ lastRun = NoRun
    /\ call = NoCall
    /\ result = 0
    /\ other = NoContext
    /\ overlap = {}
    /\ cleared = FALSE
    /\ dst = NoShift

Next ==
    \/ monitorBurnoutLevels
    \/ RosterResolved
    \/ ExistingResolved
    \/ AddNotifResolved
    \/ BurnoutEmailResolved
    \/ OvertimeResolved
    \/ FallbackResolved
    \/ OvertimeEmailResolved
    \/ Abandon
    \/ Tick

Spec == Init /\ [][Next]_vars

(***************************************************************************)
(* The supervisor pass over a roster of documents with stored analytics:   *)
(* a scenario identity that also has stored analytics, and identities      *)
(* outside the scenarios whose stored values sit at the limits.            *)
(***************************************************************************)
FullAnalytics(wellbeingScore, stressLevel, isExhausted, meetingHours) ==
    [has |-> {"wellbeingScore", "stressLevel", "isExhausted", "meetingHours"},
     wellbeingScore |-> wellbeingScore, stressLevel |-> stressLevel,
     isExhausted |-> isExhausted, meetingHours |-> meetingHours, taskCompletionRate |-> 0]

EvalDocs == <<
    [id |-> "u1", hasEmail |-> TRUE, email |-> s_member1, analytics |-> NoAnalytics,
     overtime |-> <<>>],
    [id |-> "u7", hasEmail |-> TRUE, email |-> s_member1_test,
     analytics |-> FullAnalytics(80, "low", FALSE, 16), overtime |-> <<>>],
    [id |-> "u8", hasEmail |-> TRUE, email |-> <<97>>,
     analytics |-> FullAnalytics(59, "low", FALSE, 9), overtime |-> <<12, 13>>],
    [id |-> "u9", hasEmail |-> TRUE, email |-> <<98>>,
     analytics |-> FullAnalytics(60, "low", FALSE, 9), overtime |-> <<8, 12, 13>>],
    [id |-> "v1", hasEmail |-> TRUE, email |-> <<99>>,
     analytics |-> FullAnalytics(60, "low", TRUE, 9), overtime |-> <<>>],
    [id |-> "v2", hasEmail |-> TRUE, email |-> <<100>>,
     analytics |-> FullAnalytics(59, "low", TRUE, 9), overtime |-> <<>>],
    [id |-> "v3", hasEmail |-> TRUE, email |-> <<101>>,
     analytics |-> FullAnalytics(60, "high", FALSE, 9), overtime |-> <<>>] >>

EvalRosters ==
    {Pick(EvalDocs, S) : S \in {T \in SUBSET (1..Len(EvalDocs)) : Cardinality(T) <= MaxRoster}}

EvalInit ==
    /\ clock \in Times
    /\ tz \in TimeZones
    /\ roster \in EvalRosters
    /\ user = SupervisorUser
    /\ notifications = <<>>
    /\ emails = <<>>
    /\ lsLastCheck = <<>>
    /\ lsEmailKeys = {}
    /\ lsPeerCheck = {}
    /\ pc = "idle"
    /\ now = 0
    /\ weekStart = 0
    /\ idx = 0
    /\ cur = NoMember
    /\ pending = NoPending
    /\ today = 0
    /\ ot = 0
    /\ outcome = "none"
    /\ failures = {}
    /\ evaluated = <<>>
    /\ passes = 1      \* the pass bound leaves room for two passes over such a roster
    /\ midTicks = 0
    /\ faults = 0
    /\ lostKeys = {}
    /\ startInfo = NoStart
    /\ prevRun = NoRun
    /\ lastRun = NoRun
    /\ call = NoCall
    /\ result = 0
    /\ other = NoContext
    /\ overlap = {}
    /\ cleared = FALSE
    /\ dst = NoShift

EvalSpec == EvalInit /\ [][Next]_vars

(***************************************************************************)
(* The supervisor pass over documents as the users collection may hold     *)
(* them: a stored wellbeingScore outside 0..100, documents without an      *)
(* email field, and overtime_records dated outside the current week.  The  *)
(* ids of the documents are generated, so the query may return any two     *)
(* members in either order.                                                *)
(***************************************************************************)
StoreDoc(id, hasEmail, email, analytics, overtime) ==
    [id |-> id, hasEmail |-> hasEmail, email |-> email, analytics |-> analytics,
     overtime |-> overtime]

StoreDocs == <<
    StoreDoc("w1", TRUE, <<102>>, FullAnalytics(-20, "low", FALSE, 9), <<>>),
    StoreDoc("w2", TRUE, <<103>>, FullAnalytics(150, "low", TRUE, 9), <<>>),
    StoreDoc("x1", FALSE, s_empty, FullAnalytics(20, "low", FALSE, 9), <<>>),
    StoreDoc("x2", FALSE, s_empty, FullAnalytics(10, "low", FALSE, 9), <<>>),
    StoreDoc("y1", TRUE, <<104>>, FullAnalytics(90, "low", FALSE, 9), <<6, 8, 12, 21>>) >>

\* the results of the roster query for teams of up to MaxRoster documents, whose ids may sort
\* the documents in any order
StoreRosters ==
    {[i \in DOMAIN f |-> StoreDocs[f[i]]] :
        f \in {g \in UNION {[1..n -> 1..Len(StoreDocs)] : n \in 0..MaxRoster} :
                    \A i, j \in DOMAIN g : i # j => g[i] # g[j]}}

StoreInit ==
    /\ clock \in Times
    /\ tz \in TimeZones
    /\ roster \in StoreRosters
    /\ user = SupervisorUser
    /\ notifications = <<>>
    /\ emails = <<>>
    /\ lsLastCheck = <<>>
    /\ lsEmailKeys = {}
    /\ lsPeerCheck = {}
    /\ pc = "idle"
    /\ now = 0
    /\ weekStart = 0
    /\ idx = 0
    /\ cur = NoMember
    /\ pending = NoPending
    /\ today = 0
    /\ ot = 0
    /\ outcome = "none"
    /\ failures = {}
    /\ evaluated = <<>>
    /\ passes = 1      \* the pass bound leaves room for two passes over such a roster
    /\ midTicks = 0
    /\ faults = 0
    /\ lostKeys = {}
    /\ startInfo = NoStart
    /\ prevRun = NoRun
    /\ lastRun = NoRun
    /\ call = NoCall
    /\ result = 0
    /\ other = NoContext
    /\ overlap = {}
    /\ cleared = FALSE
    /\ dst = NoShift

StoreSpec == StoreInit /\ [][Next]_vars

(***************************************************************************)
(* Members whose stored values sit at the limits of the threshold email:   *)
(* a burnoutRisk of 70 and of 71 with and without the meeting bonus, and   *)
(* members past the threshold through exhaustion only.                     *)
(***************************************************************************)
RiskDocs == <<
    StoreDoc("r1", TRUE, <<105>>, FullAnalytics(29, "low", FALSE, 15), <<>>),
    StoreDoc("r2", TRUE, <<106>>, FullAnalytics(30, "low", FALSE, 15), <<>>),
    StoreDoc("r3", TRUE, <<107>>, FullAnalytics(49, "low", FALSE, 16), <<>>),
    StoreDoc("r4", TRUE, <<108>>, FullAnalytics(50, "low", FALSE, 16), <<>>),
    StoreDoc("r5", TRUE, <<109>>, FullAnalytics(60, "low", FALSE, 16), <<>>),
    StoreDoc("r6", TRUE, <<110>>, FullAnalytics(60, "low", TRUE, 16), <<>>),
    StoreDoc("r7", TRUE, <<111>>, FullAnalytics(60, "high", FALSE, 15), <<>>),
    StoreDoc("r8", TRUE, <<112>>, FullAnalytics(59, "medium", FALSE, 16), <<>>) >>

RiskRosters ==
    {Pick(RiskDocs, S) : S \in {T \in SUBSET (1..Len(RiskDocs)) : Cardinality(T) <= MaxRoster}}

RiskInit ==
    /\ clock \in Times
    /\ tz \in TimeZones
    /\ roster \in RiskRosters
    /\ user = SupervisorUser
    /\ notifications = <<>>
    /\ emails = <<>>
    /\ lsLastCheck = <<>>
    /\ lsEmailKeys = {}
    /\ lsPeerCheck = {}
    /\ pc = "idle"
    /\ now = 0
    /\ weekStart = 0
    /\ idx = 0
    /\ cur = NoMember
    /\ pending = NoPending
    /\ today = 0
    /\ ot = 0
    /\ outcome = "none"
    /\ failures = {}
    /\ evaluated = <<>>
    /\ passes = 1      \* the pass bound leaves room for two passes over such a roster
    /\ midTicks = 0
    /\ faults = 0
    /\ lostKeys = {}
    /\ startInfo = NoStart
    /\ prevRun = NoRun
    /\ lastRun = NoRun
    /\ call = NoCall
    /\ result = 0
    /\ other = NoContext
    /\ overlap = {}
    /\ cleared = FALSE
    /\ dst = NoShift

RiskSpec == RiskInit /\ [][Next]_vars

(***************************************************************************)
(* One pass over a roster of stored documents under the assumption that    *)
(* every awaited call settles.                                             *)
(***************************************************************************)
\* the call the pass is suspended at settles: its promise resolves or rejects
Settle ==
    \/ RosterResolved
    \/ ExistingResolved
    \/ AddNotifResolved
    \/ BurnoutEmailResolved
    \/ OvertimeResolved
    \/ FallbackResolved
    \/ OvertimeEmailResolved

LiveInit ==
    /\ clock \in Times
    /\ tz \in TimeZones
    /\ roster \in StoreRosters
    /\ user = SupervisorUser
    /\ notifications = <<>>
    /\ emails = <<>>
    /\ lsLastCheck = <<>>
    /\ lsEmailKeys = {}
    /\ lsPeerCheck = {}
    /\ pc = "idle"
    /\ now = 0
    /\ weekStart = 0
    /\ idx = 0
    /\ cur = NoMember
    /\ pending = NoPending
    /\ today = 0
    /\ ot = 0
    /\ outcome = "none"
    /\ failures = {}
    /\ evaluated = <<>>
    /\ passes = MaxPasses - 1      \* the pass bound leaves room for two passes over such a roster
    /\ midTicks = 0
    /\ faults = 0
    /\ lostKeys = {}
    /\ startInfo = NoStart
    /\ prevRun = NoRun
    /\ lastRun = NoRun
    /\ call = NoCall
    /\ result = 0
    /\ other = NoContext
    /\ overlap = {}
    /\ cleared = FALSE
    /\ dst = NoShift

LiveSpec == LiveInit /\ [][Next]_vars /\ WF_vars(Settle)

(***************************************************************************)
(* The session of a supervisor.  The mount, the timer and every re-run of  *)
(* the effect call monitorBurnoutLevels without looking at an invocation   *)
(* that is still suspended at an await, so two invocations can be in       *)
(* flight; the continuation that runs next belongs to either of them.  The *)
(* test page of the same session offers the button "Clear Today's          *)
(* Monitoring Check".                                                      *)
(***************************************************************************)
\* the localStorage keys of the supervisor's gate and of the button
LastCheckKey(userId) == <<"burnout_monitoring_last_check", userId>>
MonitoringCheckKey(userId, day) == <<"burnout_monitoring", userId, day>>

\* BurnoutNotificationService.tsx lines 206-226: localStorage.removeItem of the button's key
triggerManualCheck ==
    /\ user.role = "supervisor"
    /\ ~InFlight
    /\ ~cleared
    /\ cleared' = TRUE
    /\ lsLastCheck' = IF MonitoringCheckKey(user.id, IsoDate(clock)) = LastCheckKey(user.id)
                      THEN <<>> ELSE lsLastCheck
    /\ UNCHANGED <<clock, tz, dst, roster, user, notifications, emails, lsEmailKeys, lsPeerCheck,
                   pc, now, weekStart, idx, cur, pending, today, ot, outcome, failures,
                   evaluated, passes, midTicks, faults, lostKeys, startInfo, prevRun, lastRun,
                   call, result, other, overlap>>

\* the event loop turns to the other invocation in flight, or leaves the one in flight
\* suspended while the mount, the timer or the effect calls monitorBurnoutLevels again
Switch ==
    /\ InFlight
    /\ other' = Context
    /\ pc' = other.pc
    /\ now' = other.now
    /\ weekStart' = other.weekStart
    /\ idx' = other.idx
    /\ cur' = other.cur
    /\ pending' = other.pending
    /\ today' = other.today
    /\ ot' = other.ot
    /\ outcome' = other.outcome
    /\ failures' = other.failures
    /\ evaluated' = other.evaluated
    /\ startInfo' = other.startInfo
    /\ UNCHANGED <<clock, tz, dst, roster, user, notifications, emails, lsLastCheck, lsEmailKeys,
                   lsPeerCheck, passes, midTicks, faults, lostKeys, prevRun, lastRun, call,
                   result, overlap, cleared>>

SessionRosters == {<<Docs[3]>>}

SessionInit ==
    /\ clock \in Times
    /\ tz = 0
    /\ roster \in SessionRosters
    /\ user = SupervisorUser
    /\ notifications = <<>>
    /\ emails = <<>>
    /\ lsLastCheck = <<>>
    /\ lsEmailKeys = {}
    /\ lsPeerCheck = {}
    /\ pc = "idle"
    /\ now = 0
    /\ weekStart = 0
    /\ idx = 0
    /\ cur = NoMember
    /\ pending = NoPending
    /\ today = 0
    /\ ot = 0
    /\ outcome = "none"
    /\ failures = {}
    /\ evaluated = <<>>
    /\ passes = 0
    /\ midTicks = 0
    /\ faults = 0
    /\ lostKeys = {}
    /\ startInfo = NoStart
    /\ prevRun = NoRun
    /\ lastRun = NoRun
    /\ call = NoCall
    /\ result = 0
    /\ other = NoContext
    /\ overlap = {}
    /\ cleared = FALSE
    /\ dst = NoShift

SessionNext ==
    \/ Next
    \/ Switch
    \/ triggerManualCheck

SessionSpec == SessionInit /\ [][SessionNext]_vars

(***************************************************************************)
(* Peer-help pass: checkForBurnoutAndNotify.                               *)
(***************************************************************************)
PeerDocs == <<
    [id |-> "u1", hasEmail |-> TRUE, email |-> s_member1, analytics |-> NoAnalytics,
     overtime |-> <<>>],
    [id |-> "u2", hasEmail |-> TRUE, email |-> s_Helper, analytics |-> NoAnalytics,
     overtime |-> <<>>],
    [id |-> "u4", hasEmail |-> TRUE, email |-> s_Bob, analytics |-> NoAnalytics,
     overtime |-> <<>>],
    [id |-> "u5", hasEmail |-> FALSE, email |-> s_empty,
     analytics |-> [NoAnalytics EXCEPT !.has = {"taskCompletionRate"},
                                       !.taskCompletionRate = 90],
     overtime |-> <<>>] >>

PeerRosters ==
    {Pick(PeerDocs, S) : S \in {T \in SUBSET (1..Len(PeerDocs)) : Cardinality(T) <= MaxRoster}}

\* the session users: the email of the session may equal the stored one, differ from it in
\* case, or be missing
PeerUsers == {
    [id |-> "u1", role |-> "member", hasEmail |-> TRUE, email |-> s_member1,
     analytics |-> NoAnalytics],
    [id |-> "u2", role |-> "member", hasEmail |-> TRUE, email |-> s_Helper,
     analytics |-> NoAnalytics],
    [id |-> "u4", role |-> "member", hasEmail |-> TRUE, email |-> s_bob,
     analytics |-> NoAnalytics],
    [id |-> "u5", role |-> "member", hasEmail |-> FALSE, email |-> s_empty,
     analytics |-> [NoAnalytics EXCEPT !.has = {"taskCompletionRate"},
                                       !.taskCompletionRate = 90]] }

TaskCompletionOf(email, analytics) ==
    LET testScenario == getTestScenarioValues(email)
    IN IF testScenario.matched THEN testScenario.taskCompletionRate
       ELSE IF "taskCompletionRate" \in analytics.has THEN analytics.taskCompletionRate
       ELSE generateConsistentValue(email, 1, 60, 100)

\* variant: the task completion of the session user is not looked at
IsEligible_NoTaskCheck(u) ==
    LET currentUserEmail == UserEmail(u)
    IN ~IsBurntOutOf(WellbeingOf(currentUserEmail, u.analytics),
                     StressOf(currentUserEmail, u.analytics),
                     ExhaustedOf(currentUserEmail, u.analytics))

\* variant: the task completion limit itself makes the session user eligible
IsEligible_AtLeast(u) ==
    LET currentUserEmail == UserEmail(u)
    IN /\ ~IsBurntOutOf(WellbeingOf(currentUserEmail, u.analytics),
                        StressOf(currentUserEmail, u.analytics),
                        ExhaustedOf(currentUserEmail, u.analytics))
       /\ TaskCompletionOf(currentUserEmail, u.analytics) >= TaskCompletionLimit

\* lines 38-50: the session user may receive peer-help alerts
IsEligible(u) ==
    LET currentUserEmail == UserEmail(u)
        isCurrentUserBurntOut ==
            IsBurntOutOf(WellbeingOf(currentUserEmail, u.analytics),
                         StressOf(currentUserEmail, u.analytics),
                         ExhaustedOf(currentUserEmail, u.analytics))
        hasHighTaskCompletion ==
            TaskCompletionOf(currentUserEmail, u.analytics) > TaskCompletionLimit
    IN ~(isCurrentUserBurntOut \/ ~hasHighTaskCompletion)

\* line 71: email === user.email
IsCurrentUser(email, u) == u.hasEmail /\ email = u.email

\* variant: the peer-help pass counts a wellbeing score of 60 as burnt out
PeerEvaluate_AtMost(doc) ==
    LET email == EmailOf(doc)
        wellbeingScore == WellbeingOf(email, doc.analytics)
        stressLevel == StressOf(email, doc.analytics)
        isExhausted == ExhaustedOf(email, doc.analytics)
    IN [memberId |-> doc.id, memberEmail |-> email, wellbeingScore |-> wellbeingScore,
        stressLevel |-> stressLevel, isExhausted |-> isExhausted,
        isBurntOut |-> IsBurntOutOf_AtMost(wellbeingScore, stressLevel, isExhausted)]

\* lines 67-81: the loop variables of one iteration
PeerEvaluate(doc) ==
    LET email == EmailOf(doc)
        wellbeingScore == WellbeingOf(email, doc.analytics)
        stressLevel == StressOf(email, doc.analytics)
        isExhausted == ExhaustedOf(email, doc.analytics)
    IN [memberId |-> doc.id, memberEmail |-> email, wellbeingScore |-> wellbeingScore,
        stressLevel |-> stressLevel, isExhausted |-> isExhausted,
        isBurntOut |-> IsBurntOutOf(wellbeingScore, stressLevel, isExhausted)]

IsPeerAlert(n, userId, memberId) ==
    n.type = "burnout_alert" /\ n.userId = userId /\ n.burnoutMemberId = memberId

\* variant: only the notifications of the last 24 hours count
ExistingEmpty_Fresh(userId, memberId) ==
    ~ \E i \in 1..Len(notifications) :
        /\ IsPeerAlert(notifications[i], userId, memberId)
        /\ (clock - notifications[i].timestamp) < FreshHours * 60

\* variant: the existing notifications are not consulted
ExistingEmpty_Always(userId, memberId) == TRUE

\* line 93: existingSnapshot.empty
ExistingEmpty(userId, memberId) ==
    ~ \E i \in 1..Len(notifications) : IsPeerAlert(notifications[i], userId, memberId)

PeerLocals == [pc |-> pc, idx |-> idx, cur |-> cur, pending |-> pending,
               checks |-> lsPeerCheck, outcome |-> outcome, evaluated |-> evaluated]

\* variant: the key of the day replaces the keys already stored
PeerStageFinish_OnlyKey(L) ==
    [L EXCEPT !.pc = "idle", !.checks = {<<user.id, today>>}, !.outcome = "completed"]

\* variant: the day on which the pass ends is marked as checked
PeerStageFinish_EndDay(L) ==
    [L EXCEPT !.pc = "idle", !.checks = @ \cup {<<user.id, IsoDate(clock)>>},
              !.outcome = "completed"]

\* lines 112-113: the pass completes and marks the day as checked
PeerStageFinish(L) ==
    [L EXCEPT !.pc = "idle", !.checks = @ \cup {<<user.id, today>>}, !.outcome = "completed"]

\* lines 66-91: the loop runs up to the next query of the existing notifications
RECURSIVE PeerStageNext(_)
PeerStageNext(L) ==
    IF L.idx >= Len(roster) THEN PeerStageFinish(L)
    ELSE LET i == L.idx + 1
             L1 == [L EXCEPT !.idx = i, !.pending = NoPending]
         IN IF IsCurrentUser(EmailOf(roster[i]), user) THEN PeerStageNext(L1)
            ELSE LET c == PeerEvaluate(roster[i])
                     L2 == [L1 EXCEPT !.cur = c, !.evaluated = Append(@, i)]
                 IN IF c.isBurntOut THEN [L2 EXCEPT !.pc = "peerExisting"]
                    ELSE PeerStageNext(L2)

\* lines 93-107: the notification is built and handed to addDoc, or skipped
PeerStageNotify(L) ==
    IF ExistingEmpty(user.id, L.cur.memberId)
    THEN [L EXCEPT !.pc = "peerAdd",
                   !.pending = [type |-> "burnout_alert",
                                userId |-> user.id,
                                burnoutMemberId |-> L.cur.memberId,
                                burnoutMemberEmail |-> L.cur.memberEmail,
                                burnoutMemberWellbeing |-> L.cur.wellbeingScore,
                                timestamp |-> clock]]
    ELSE PeerStageNext(L)

\* lines 114-116: the catch of checkForBurnoutAndNotify
PeerStageAbort(L) == [L EXCEPT !.pc = "idle", !.outcome = "aborted"]

PeerCommit(L, notifs, fails) ==
    /\ (NewFault(fails) => faults < MaxFaults)
    /\ faults' = IF NewFault(fails) THEN faults + 1 ELSE faults
    /\ notifications' = notifs
    /\ failures' = fails
    /\ lsPeerCheck' = L.checks
    /\ outcome' = L.outcome
    /\ evaluated' = L.evaluated
    /\ pc' = L.pc
    /\ IF L.pc = "idle"
       THEN idx' = 0 /\ cur' = NoMember /\ pending' = NoPending /\ today' = 0
       ELSE idx' = L.idx /\ cur' = L.cur /\ pending' = L.pending /\ today' = today
    /\ UNCHANGED <<clock, tz, dst, roster, user, emails, lsLastCheck, lsEmailKeys, now, weekStart,
                   ot, passes, midTicks, lostKeys, startInfo, prevRun, lastRun, call, result,
                   other, overlap, cleared>>

\* lines 22-64: the invocation (mount), its daily gate, the eligibility check, the roster query
checkForBurnoutAndNotify ==
    /\ pc = "idle"
    /\ user.role = "member"
    /\ failures' = {}
    /\ evaluated' = <<>>
    /\ IF <<user.id, IsoDate(clock)>> \in lsPeerCheck
       THEN /\ outcome' = "gated"
            /\ UNCHANGED <<lsPeerCheck, pc, today, passes>>
       ELSE /\ passes < MaxPasses
            /\ passes' = passes + 1
            /\ IF ~IsEligible(user)
               THEN /\ lsPeerCheck' = lsPeerCheck \cup {<<user.id, IsoDate(clock)>>}
                    /\ outcome' = "ineligible"
                    /\ UNCHANGED <<pc, today>>
               ELSE /\ pc' = "peerRoster"
                    /\ today' = IsoDate(clock)
                    /\ outcome' = "running"
                    /\ UNCHANGED lsPeerCheck
    /\ UNCHANGED <<clock, tz, dst, roster, user, notifications, emails, lsLastCheck, lsEmailKeys,
                   now, weekStart, idx, cur, pending, ot, midTicks, faults, lostKeys,
                   startInfo, prevRun, lastRun, call, result,
                   other, overlap, cleared>>

\* line 64: the roster query resolves or rejects
PeerRosterResolved ==
    /\ pc = "peerRoster"
    /\ \E ok \in BOOLEAN :
        IF ok THEN PeerCommit(PeerStageNext(PeerLocals), notifications, failures)
        ELSE PeerCommit(PeerStageAbort(PeerLocals), notifications,
                        failures \cup {<<"roster", idx>>})

\* line 91: the query of the existing notifications resolves or rejects
PeerExistingResolved ==
    /\ pc = "peerExisting"
    /\ \E ok \in BOOLEAN :
        IF ok THEN PeerCommit(PeerStageNotify(PeerLocals), notifications, failures)
        ELSE PeerCommit(PeerStageAbort(PeerLocals), notifications,
                        failures \cup {<<"existing", idx>>})

\* line 95: the addDoc of the peer-help notification resolves or rejects
PeerAddResolved ==
    /\ pc = "peerAdd"
    /\ \E ok \in BOOLEAN :
        IF ok THEN PeerCommit(PeerStageNext(PeerLocals), Append(notifications, pending), failures)
        ELSE PeerCommit(PeerStageAbort(PeerLocals), notifications,
                        failures \cup {<<"notification", idx>>})

\* the page is closed while the pass is suspended; a write in flight may have been applied
PeerAbandon ==
    /\ pc \in {"peerRoster", "peerExisting", "peerAdd"}
    /\ \E applied \in BOOLEAN :
        /\ (applied => pc = "peerAdd")
        /\ PeerCommit([PeerLocals EXCEPT !.pc = "idle", !.outcome = "abandoned"],
                      IF applied THEN Append(notifications, pending) ELSE notifications,
                      failures \cup {<<"abandoned", idx>>})

PeerInit ==
    /\ clock \in Times
    /\ tz = 0
    /\ roster \in PeerRosters
    /\ user \in PeerUsers
    /\ notifications = <<>>
    /\ emails = <<>>
    /\ lsLastCheck = <<>>
    /\ lsEmailKeys = {}
    /\ lsPeerCheck = {}
    /\ pc = "idle"
    /\ now = 0
    /\ weekStart = 0
    /\ idx = 0
    /\ cur = NoMember
    /\ pending = NoPending
    /\ today = 0
    /\ ot = 0
    /\ outcome = "none"
    /\ failures = {}
    /\ evaluated = <<>>
    /\ passes = 0
    /\ midTicks = 0
    /\ faults = 0
    /\ lostKeys = {}
    /\ startInfo = NoStart
    /\ prevRun = NoRun
    /\ lastRun = NoRun
    /\ call = NoCall
    /\ result = 0
    /\ other = NoContext
    /\ overlap = {}
    /\ cleared = FALSE
    /\ dst = NoShift

PeerNext ==
    \/ checkForBurnoutAndNotify
    \/ PeerRosterResolved
    \/ PeerExistingResolved
    \/ PeerAddResolved
    \/ PeerAbandon
    \/ Tick

PeerSpec == PeerInit /\ [][PeerNext]_vars

(***************************************************************************)
(* The peer-help passes of the members of one team, who sign in one after  *)
(* the other on the same browser: the five scenario identities, and two    *)
(* healthy identities outside the scenarios whose stored task completion   *)
(* sits at the limit.                                                      *)
(***************************************************************************)
HelperAnalytics(taskCompletionRate) ==
    [has |-> {"wellbeingScore", "stressLevel", "isExhausted", "taskCompletionRate"},
     wellbeingScore |-> 90, stressLevel |-> "low", isExhausted |-> FALSE, meetingHours |-> 0,
     taskCompletionRate |-> taskCompletionRate]

TeamDoc(id, email, analytics) ==
    [id |-> id, hasEmail |-> TRUE, email |-> email, analytics |-> analytics, overtime |-> <<>>]

TeamOfTwo == << TeamDoc("m1", s_member1, NoAnalytics), TeamDoc("m2", s_member2, NoAnalytics) >>

TeamOfFive == TeamOfTwo \o << TeamDoc("m3", s_member3, NoAnalytics),
                              TeamDoc("m4", s_member4, NoAnalytics),
                              TeamDoc("m5", s_member5, NoAnalytics) >>

TeamAtLimit == << TeamDoc("h1", <<120>>, HelperAnalytics(76)),
                  TeamDoc("h2", <<121>>, HelperAnalytics(75)),
                  TeamDoc("m1", s_member1, NoAnalytics) >>

TeamRosters == {TeamOfTwo, TeamOfFive, TeamAtLimit}

\* the session of the member whose document is doc
SessionOf(doc) ==
    [id |-> doc.id, role |-> "member", hasEmail |-> doc.hasEmail, email |-> doc.email,
     analytics |-> doc.analytics]

\* line 121: a member further down the roster signs in; the effect runs again for the new user
SignIn ==
    /\ pc = "idle"
    /\ \E i, j \in 1..Len(roster) :
        /\ user = SessionOf(roster[j])
        /\ i > j
        /\ user' = SessionOf(roster[i])
    /\ passes' = 0
    /\ outcome' = "none"
    /\ failures' = {}
    /\ evaluated' = <<>>
    /\ UNCHANGED <<clock, tz, dst, roster, notifications, emails, lsLastCheck, lsEmailKeys,
                   lsPeerCheck, pc, now, weekStart, idx, cur, pending, today, ot, midTicks,
                   faults, lostKeys, startInfo, prevRun, lastRun, call, result,
                   other, overlap, cleared>>

TeamInit ==
    /\ clock \in Times
    /\ tz = 0
    /\ roster \in TeamRosters
    /\ user \in {SessionOf(roster[i]) : i \in 1..Len(roster)}
    /\ notifications = <<>>
    /\ emails = <<>>
    /\ lsLastCheck = <<>>
    /\ lsEmailKeys = {}
    /\ lsPeerCheck = {}
    /\ pc = "idle"
    /\ now = 0
    /\ weekStart = 0
    /\ idx = 0
    /\ cur = NoMember
    /\ pending = NoPending
    /\ today = 0
    /\ ot = 0
    /\ outcome = "none"
    /\ failures = {}
    /\ evaluated = <<>>
    /\ passes = 0
    /\ midTicks = 0
    /\ faults = 0
    /\ lostKeys = {}
    /\ startInfo = NoStart
    /\ prevRun = NoRun
    /\ lastRun = NoRun
    /\ call = NoCall
    /\ result = 0
    /\ other = NoContext
    /\ overlap = {}
    /\ cleared = FALSE
    /\ dst = NoShift

TeamNext ==
    \/ checkForBurnoutAndNotify
    \/ PeerRosterResolved
    \/ PeerExistingResolved
    \/ PeerAddResolved
    \/ PeerAbandon
    \/ SignIn
    \/ Tick

TeamSpec == TeamInit /\ [][TeamNext]_vars

(***************************************************************************)
(* Both alerting surfaces over one team: the supervisor and the members    *)
(* of the team sign in one after the other; the supervisor's session runs  *)
(* monitorBurnoutLevels, a member's session checkForBurnoutAndNotify.      *)
(* The team holds an eligible helper and members at the limits of the      *)
(* burnout classification.                                                 *)
(***************************************************************************)
SurfaceHelper == TeamDoc("h1", <<120>>, HelperAnalytics(76))

SurfaceDocs == <<
    TeamDoc("m1", s_member1, NoAnalytics),
    TeamDoc("m3", s_member3, NoAnalytics),
    TeamDoc("a1", <<97>>, FullAnalytics(59, "low", FALSE, 9)),
    TeamDoc("a2", <<98>>, FullAnalytics(60, "low", FALSE, 9)),
    TeamDoc("a3", <<99>>, FullAnalytics(90, "high", FALSE, 9)),
    TeamDoc("a4", <<100>>, FullAnalytics(90, "medium", TRUE, 9)),
    TeamDoc("a5", s_ab, [NoAnalytics EXCEPT !.has = {"stressLevel"}, !.stressLevel = "low"]) >>

\* the results of the roster query: the helper and up to MaxRoster - 1 other members
SurfaceRosters ==
    {<<SurfaceHelper>> \o Pick(SurfaceDocs, S) :
        S \in {T \in SUBSET (1..Len(SurfaceDocs)) : Cardinality(T) <= MaxRoster - 1}}

SurfaceUsers == {SupervisorUser, SessionOf(SurfaceHelper)}

\* lines 184 and 121 of the two services: another user signs in and the effects run again
SwitchUser ==
    /\ pc = "idle"
    /\ \E u \in SurfaceUsers \cup {SessionOf(roster[i]) : i \in 1..Len(roster)} :
        /\ u # user
        /\ user' = u
    /\ outcome' = "none"
    /\ failures' = {}
    /\ evaluated' = <<>>
    /\ UNCHANGED <<clock, tz, dst, roster, notifications, emails, lsLastCheck, lsEmailKeys,
                   lsPeerCheck, pc, now, weekStart, idx, cur, pending, today, ot, passes,
                   midTicks, faults, lostKeys, startInfo, prevRun, lastRun, call, result,
                   other, overlap, cleared>>

SurfaceInit ==
    /\ clock \in Times
    /\ tz = 0
    /\ roster \in SurfaceRosters
    /\ user \in SurfaceUsers
    /\ notifications = <<>>
    /\ emails = <<>>
    /\ lsLastCheck = <<>>
    /\ lsEmailKeys = {}
    /\ lsPeerCheck = {}
    /\ pc = "idle"
    /\ now = 0
    /\ weekStart = 0
    /\ idx = 0
    /\ cur = NoMember
    /\ pending = NoPending
    /\ today = 0
    /\ ot = 0
    /\ outcome = "none"
    /\ failures = {}
    /\ evaluated = <<>>
    /\ passes = 0
    /\ midTicks = 0
    /\ faults = 0
    /\ lostKeys = {}
    /\ startInfo = NoStart
    /\ prevRun = NoRun
    /\ lastRun = NoRun
    /\ call = NoCall
    /\ result = 0
    /\ other = NoContext
    /\ overlap = {}
    /\ cleared = FALSE
    /\ dst = NoShift

SurfaceNext ==
    \/ Next
    \/ checkForBurnoutAndNotify
    \/ PeerRosterResolved
    \/ PeerExistingResolved
    \/ PeerAddResolved
    \/ PeerAbandon
    \/ SwitchUser

SurfaceSpec == SurfaceInit /\ [][SurfaceNext]_vars

(***************************************************************************)
(* The synthesizer on its own: the views call generateConsistentValue      *)
(* with an identity, a seed and a range, at any time.                      *)
(***************************************************************************)
Identities == {s_member1, s_member5, s_Helper, s_ab, s_bob, s_Bob, s_empty, s_esmwejp}
Seeds == {1, 3, 4, 5, 15, 999}
Ranges == {<<50, 90>>, <<0, 100>>, <<8, 18>>, <<0, 4>>, <<0, 2>>, <<60, 100>>, <<7, 7>>, <<-5, 5>>}

Synthesize ==
    /\ \E identity \in Identities, sd \in Seeds, r \in Ranges :
        /\ call' = [email |-> identity, seed |-> sd, min |-> r[1], max |-> r[2]]
        /\ result' = generateConsistentValue(identity, sd, r[1], r[2])
    /\ UNCHANGED <<clock, tz, dst, roster, user, notifications, emails, lsLastCheck, lsEmailKeys,
                   lsPeerCheck, pc, now, weekStart, idx, cur, pending, today, ot, outcome,
                   failures, evaluated, passes, midTicks, faults, lostKeys, startInfo, prevRun,
                   lastRun, other, overlap, cleared>>

SynthInit ==
    /\ clock \in Times
    /\ tz \in TimeZones
    /\ roster = <<>>
    /\ user = SupervisorUser
    /\ notifications = <<>>
    /\ emails = <<>>
    /\ lsLastCheck = <<>>
    /\ lsEmailKeys = {}
    /\ lsPeerCheck = {}
    /\ pc = "idle"
    /\ now = 0
    /\ weekStart = 0
    /\ idx = 0
    /\ cur = NoMember
    /\ pending = NoPending
    /\ today = 0
    /\ ot = 0
    /\ outcome = "none"
    /\ failures = {}
    /\ evaluated = <<>>
    /\ passes = 0
    /\ midTicks = 0
    /\ faults = 0
    /\ lostKeys = {}
    /\ startInfo = NoStart
    /\ prevRun = NoRun
    /\ lastRun = NoRun
    /\ call = NoCall
    /\ result = 0
    /\ other = NoContext
    /\ overlap = {}
    /\ cleared = FALSE
    /\ dst = NoShift

SynthNext ==
    \/ Synthesize
    \/ Tick

SynthSpec == SynthInit /\ [][SynthNext]_vars

(***************************************************************************)
(* The scenario lookup on its own: the views call getTestScenarioValues    *)
(* with an identity, at any time.  The identities match no pattern, one    *)
(* pattern, or patterns of several pairs, in lower and in upper case.      *)
(***************************************************************************)
ScenarioIdentities ==
    {s_member1, s_member2, s_member3, s_member4, s_member5, s_burnout, s_helper, s_struggling,
     s_productive, s_stressed, s_Helper, s_ab, s_empty, s_member1_test,
     \* MEMBER1
     <<77, 69, 77, 66, 69, 82, 49>>,
     \* Member2-Burnout
     <<77, 101, 109, 98, 101, 114, 50, 45, 66, 117, 114, 110, 111, 117, 116>>,
     \* stressed.helper
     <<115, 116, 114, 101, 115, 115, 101, 100, 46, 104, 101, 108, 112, 101, 114>>,
     \* member4member3
     <<109, 101, 109, 98, 101, 114, 52, 109, 101, 109, 98, 101, 114, 51>>,
     \* productive.member5
     <<112, 114, 111, 100, 117, 99, 116, 105, 118, 101, 46, 109, 101, 109, 98, 101, 114, 53>>,
     \* xmember10
     <<120, 109, 101, 109, 98, 101, 114, 49, 48>>,
     \* member
     <<109, 101, 109, 98, 101, 114>>,
     \* Struggling
     <<83, 116, 114, 117, 103, 103, 108, 105, 110, 103>>,
     \* STRESSED
     <<83, 84, 82, 69, 83, 83, 69, 68>>}

Lookup ==
    /\ \E identity \in ScenarioIdentities :
        /\ call' = [email |-> identity, seed |-> 0, min |-> 0, max |-> 0]
        /\ result' = getTestScenarioValues(identity)
    /\ UNCHANGED <<clock, tz, dst, roster, user, notifications, emails, lsLastCheck, lsEmailKeys,
                   lsPeerCheck, pc, now, weekStart, idx, cur, pending, today, ot, outcome,
                   failures, evaluated, passes, midTicks, faults, lostKeys, startInfo, prevRun,
                   lastRun, other, overlap, cleared>>

ScenarioInit ==
    /\ clock \in Times
    /\ tz \in TimeZones
    /\ roster = <<>>
    /\ user = SupervisorUser
    /\ notifications = <<>>
    /\ emails = <<>>
    /\ lsLastCheck = <<>>
    /\ lsEmailKeys = {}
    /\ lsPeerCheck = {}
    /\ pc = "idle"
    /\ now = 0
    /\ weekStart = 0
    /\ idx = 0
    /\ cur = NoMember
    /\ pending = NoPending
    /\ today = 0
    /\ ot = 0
    /\ outcome = "none"
    /\ failures = {}
    /\ evaluated = <<>>
    /\ passes = 0
    /\ midTicks = 0
    /\ faults = 0
    /\ lostKeys = {}
    /\ startInfo = NoStart
    /\ prevRun = NoRun
    /\ lastRun = NoRun
    /\ call = NoCall
    /\ result = 0
    /\ other = NoContext
    /\ overlap = {}
    /\ cleared = FALSE
    /\ dst = NoShift

ScenarioNext ==
    \/ Lookup
    \/ Tick

ScenarioSpec == ScenarioInit /\ [][ScenarioNext]_vars

(***************************************************************************)
(* The supervisor pass in a browser whose zone may change its offset: the  *)
(* clocks go back one hour, or forward one hour, early on the first day.   *)
(***************************************************************************)
Shifts == {NoShift,
           [shift |-> 60, at |-> FirstDay * MinutesPerDay + 60],
           [shift |-> -60, at |-> FirstDay * MinutesPerDay + 120]}

WeekRosters == {<<>>, <<Docs[3]>>}

WeekInit ==
    /\ clock \in Times
    /\ tz \in TimeZones
    /\ roster \in WeekRosters
    /\ user = SupervisorUser
    /\ notifications = <<>>
    /\ emails = <<>>
    /\ lsLastCheck = <<>>
    /\ lsEmailKeys = {}
    /\ lsPeerCheck = {}
    /\ pc = "idle"
    /\ now = 0
    /\ weekStart = 0
    /\ idx = 0
    /\ cur = NoMember
    /\ pending = NoPending
    /\ today = 0
    /\ ot = 0
    /\ outcome = "none"
    /\ failures = {}
    /\ evaluated = <<>>
    /\ passes = 0
    /\ midTicks = 0
    /\ faults = 0
    /\ lostKeys = {}
    /\ startInfo = NoStart
    /\ prevRun = NoRun
    /\ lastRun = NoRun
    /\ call = NoCall
    /\ result = 0
    /\ other = NoContext
    /\ overlap = {}
    /\ cleared = FALSE
    /\ dst \in Shifts

WeekSpec == WeekInit /\ [][Next]_vars

(***************************************************************************)
(* Properties of the supervisor monitoring pass.                           *)
(***************************************************************************)
IsBurnoutEmail(e) == e.type = "burnout_threshold_alert"
IsOvertimeEmail(e) == e.type = "overtime_alert"

\* two runs in the same calendar day, the same week and less than 24 hours apart
SameWindow(a, b) ==
    /\ IsoDate(a.start) = IsoDate(b.end)
    /\ a.week = b.week
    /\ (b.start - a.start) < FreshHours * 60

TwoRunsInSequence == prevRun.valid /\ lastRun.valid /\ SameWindow(prevRun, lastRun)

\* what one uninterrupted run over the roster writes into empty stores
ExpectedNotifications(weekStartT) ==
    Cardinality({i \in 1..Len(roster) : Evaluate(roster[i]).isBurntOut})
ExpectedEmails(weekStartT) ==
    Cardinality({i \in 1..Len(roster) : Evaluate(roster[i]).burnoutRisk > BurnoutThreshold})
    + Cardinality({i \in 1..Len(roster) : OvertimeCount(roster[i], weekStartT) >= OvertimeThreshold})

\* C1 as stated: of two complete, failure-free runs in sequence within the same day, the same
\* week and less than 24 hours apart, the second adds no notification and no email record.
CE_C1 ==
    TwoRunsInSequence => (lastRun.nN = prevRun.nN /\ lastRun.nE = prevRun.nE)

\* C1 as amended: when the first of the two runs starts with no supervisor_burnout_alert
\* younger than 24 hours in the output store, the second run adds no record; started from
\* empty stores, the first run leaves one supervisor alert per burnt-out member, one
\* threshold email per member with burnoutRisk > 70 and one overtime email per member with
\* at least 3 overtime records.
Thm_C1 ==
    (TwoRunsInSequence /\ prevRun.noFresh) =>
        /\ lastRun.nN = prevRun.nN
        /\ lastRun.nE = prevRun.nE
        /\ (prevRun.fromEmpty =>
                /\ prevRun.nN = ExpectedNotifications(prevRun.week)
                /\ prevRun.nE = ExpectedEmails(prevRun.week))

Wit_C1 ==
    /\ TwoRunsInSequence
    /\ prevRun.noFresh
    /\ prevRun.fromEmpty
    /\ prevRun.nN > 0
    /\ prevRun.nE > 1
    /\ lastRun.start >= prevRun.start + GateMinutes

Thm_C4 ==
    \A i, j \in 1..Len(notifications) :
        (i < j /\ notifications[i].type = "supervisor_burnout_alert"
               /\ IsSupervisorAlert(notifications[j], notifications[i].userId,
                                    notifications[i].burnoutMemberId))
            => (notifications[j].timestamp - notifications[i].timestamp) >= FreshHours * 60

Wit_C4 ==
    \E i, j \in 1..Len(notifications) :
        /\ i < j
        /\ notifications[i].type = "supervisor_burnout_alert"
        /\ IsSupervisorAlert(notifications[j], notifications[i].userId,
                             notifications[i].burnoutMemberId)

\* C7: a dedup key of a threshold email (member, day) or of an overtime email (member, week)
\* is in the dedup store only if the email record it stands for is in the output store.
Thm_C7 ==
    \A k \in lsEmailKeys :
        \E i \in 1..Len(emails) :
            /\ emails[i].memberEmail = k[2]
            /\ IF k[1] = "burnout_email"
               THEN IsBurnoutEmail(emails[i]) /\ IsoDate(emails[i].timestamp) = k[3]
               ELSE IsOvertimeEmail(emails[i]) /\ IsoDate(emails[i].weekStart) = k[3]

Wit_C7 ==
    /\ faults > 0
    /\ \E k \in lsEmailKeys : k[1] = "burnout_email"
    /\ \E k \in lsEmailKeys : k[1] = "overtime_email"

FailedKinds == {f[1] : f \in failures}
PassEnded == pc = "idle" /\ outcome \in {"completed", "aborted", "abandoned"}

\* lines 36-38 evaluated at the current time
GateBlocks == lsLastCheck # <<>> /\ (clock - ParseInt(lsLastCheck)) < GateMinutes

\* the dedup keys of the members at positions 1..n of the roster
KeysOfMembers(n) ==
    {k \in lsEmailKeys : \E i \in 1..n : EmailOf(roster[i]) = k[2]}

\* the failures that reach the catch of monitorBurnoutLevels
Aborting == {f \in failures : f[1] \in {"roster", "existing", "notification", "fallback"}}

Aborted ==
    /\ outcome = "aborted"
    /\ lsLastCheck = startInfo.marker0
    /\ ~GateBlocks
    /\ \A f \in Aborting : \A i \in 1..Len(evaluated) : evaluated[i] <= f[2]
    /\ \A f \in Aborting : (lsEmailKeys \ startInfo.keys0) \subseteq KeysOfMembers(f[2])

\* C8 as stated: a failed roster query or a failed write of a supervisor notification, a
\* threshold email or an overtime email aborts the pass.
CE_C8 ==
    (PassEnded /\ outcome # "abandoned"
        /\ FailedKinds \cap {"roster", "notification", "burnoutEmail", "overtimeEmail"} # {})
        => Aborted

\* C8 as amended: a failed roster query or a failed write of a supervisor notification aborts
\* the pass: no later member is evaluated, no dedup key is written for a later member, the
\* last-check marker keeps its value and does not block the next invocation.  A failed write
\* of a threshold or overtime email is caught inside its send function: its dedup key is not
\* written and the pass goes on to completion.
Thm_C8 ==
    /\ (PassEnded /\ FailedKinds \cap {"roster", "notification"} # {}) => Aborted
    /\ (PassEnded /\ FailedKinds # {} /\ FailedKinds \subseteq {"burnoutEmail", "overtimeEmail"})
            => /\ outcome = "completed"
               /\ lsLastCheck # startInfo.marker0
               /\ evaluated = [i \in 1..Len(roster) |-> i]
               /\ lsEmailKeys \cap {k \in lsEmailKeys :
                        \E f \in failures : /\ EmailOf(roster[f[2]]) = k[2]
                                            /\ k[1] = (IF f[1] = "burnoutEmail"
                                                       THEN "burnout_email"
                                                       ELSE "overtime_email")}
                    \subseteq startInfo.keys0

Wit_C8 ==
    /\ PassEnded
    /\ <<"notification", 1>> \in failures
    /\ Len(roster) = 2
    /\ startInfo.marker0 # <<>>

\* C9: a failed overtime query never aborts the pass, whatever happens in the fallback path.
CE_C9 ==
    (PassEnded /\ FailedKinds # {} /\ FailedKinds \subseteq {"overtimeQuery", "fallback"})
        => /\ outcome = "completed"
           /\ evaluated = [i \in 1..Len(roster) |-> i]
           /\ lsLastCheck # startInfo.marker0

\* C10: for a member whose identity matches a scenario pattern, every metric the pass uses is
\* the scenario's value.
CE_C10 ==
    (pc \in {"existing", "addNotif", "burnoutEmail", "overtime", "fallback", "overtimeEmail"}
        /\ getTestScenarioValues(cur.memberEmail).matched)
        => LET scenario == getTestScenarioValues(cur.memberEmail)
           IN /\ cur.wellbeingScore = scenario.wellbeingScore
              /\ cur.stressLevel = scenario.stressLevel
              /\ cur.isExhausted = scenario.isExhausted
              /\ cur.meetingHours = scenario.meetingHours
              /\ (pc = "overtimeEmail" => ot = scenario.overtimeCount)

(***************************************************************************)
(* Properties of the peer-help pass.                                       *)
(***************************************************************************)
\* C5: the output store holds at most one burnout_alert notification per pair of helper and
\* burnt-out member, however old the existing notification is.
Thm_C5 ==
    \A i, j \in 1..Len(notifications) :
        (i < j /\ notifications[i].type = "burnout_alert")
            => ~IsPeerAlert(notifications[j], notifications[i].userId,
                            notifications[i].burnoutMemberId)

Wit_C5 ==
    /\ pc = "idle"
    /\ outcome = "completed"
    /\ evaluated # <<>>
    /\ \E i \in 1..Len(notifications) :
        /\ IsPeerAlert(notifications[i], user.id, roster[evaluated[1]].id)
        /\ (clock - notifications[i].timestamp) >= FreshHours * 60
        /\ IsoDate(notifications[i].timestamp) < IsoDate(clock)
    /\ <<user.id, IsoDate(clock)>> \in lsPeerCheck

\* C6: no peer-help notification names its own recipient as the burnt-out member.
CE_C6 ==
    \A i \in 1..Len(notifications) :
        notifications[i].type = "burnout_alert"
            => notifications[i].userId # notifications[i].burnoutMemberId

(***************************************************************************)
(* Properties of the evaluation of one roster member.                      *)
(***************************************************************************)
\* the pass is suspended inside the iteration of roster[idx]
InMember == pc \in {"existing", "addNotif", "burnoutEmail", "overtime", "fallback", "overtimeEmail"}

\* C11: a member who matches a scenario pattern and has a stored analytics value for a field
\* is evaluated with the stored value of that field.
CE_C11 ==
    (InMember /\ getTestScenarioValues(cur.memberEmail).matched)
        => LET analytics == roster[idx].analytics
           IN /\ ("wellbeingScore" \in analytics.has
                    => cur.wellbeingScore = analytics.wellbeingScore)
              /\ ("stressLevel" \in analytics.has => cur.stressLevel = analytics.stressLevel)
              /\ ("isExhausted" \in analytics.has => cur.isExhausted = analytics.isExhausted)

\* a session user with the identity of the member under evaluation
AsUser(analytics) ==
    [id |-> cur.memberId, role |-> "member", hasEmail |-> TRUE, email |-> cur.memberEmail,
     analytics |-> analytics]

HealthyAnalytics ==
    [has |-> {"wellbeingScore", "stressLevel", "isExhausted", "taskCompletionRate"},
     wellbeingScore |-> 90, stressLevel |-> "low", isExhausted |-> FALSE, meetingHours |-> 0,
     taskCompletionRate |-> 90]

IsMember1 == InMember /\ Includes(cur.memberEmail, s_member1)

\* the burnoutRisk values stored for identities that contain member1
StoredRisksOfMember1 ==
    {notifications[i].burnoutRisk : i \in {j \in 1..Len(notifications) :
        Includes(notifications[j].burnoutMemberEmail, s_member1)}}
    \cup {emails[i].burnoutRisk : i \in {j \in 1..Len(emails) :
        IsBurnoutEmail(emails[j]) /\ Includes(emails[j].memberEmail, s_member1)}}

PastThreshold == pc \in {"overtime", "fallback", "overtimeEmail"}

\* no dedup key of a threshold email for the member was present when the pass started
NoBurnoutKeyAtStart(memberEmail) ==
    \A k \in startInfo.keys0 : ~(k[1] = "burnout_email" /\ k[2] = memberEmail)

\* C15: a threshold email is handed to the output store only for a burnoutRisk strictly above
\* 70 and only without its dedup key; every stored threshold email carries a risk above 70;
\* and once CHECK 2 is over for a member with a risk above 70 whose key was absent, the pass
\* has written that member's email unless the write failed.
Thm_C15 ==
    /\ pc = "burnoutEmail" =>
        /\ cur.burnoutRisk > 70
        /\ BurnoutEmailKey(cur.memberEmail, today) \notin lsEmailKeys
    /\ \A i \in 1..Len(emails) : IsBurnoutEmail(emails[i]) => emails[i].burnoutRisk > 70
    /\ (PastThreshold /\ cur.burnoutRisk > 70 /\ NoBurnoutKeyAtStart(cur.memberEmail)
            /\ <<"burnoutEmail", idx>> \notin failures)
        => \E i \in 1..Len(emails) :
               /\ IsBurnoutEmail(emails[i])
               /\ emails[i].memberEmail = cur.memberEmail
               /\ emails[i].burnoutRisk = cur.burnoutRisk
               /\ emails[i].timestamp >= now
    /\ (PastThreshold /\ cur.burnoutRisk <= 70)
        => ~ \E i \in 1..Len(emails) :
               /\ IsBurnoutEmail(emails[i])
               /\ emails[i].memberEmail = cur.memberEmail
               /\ emails[i].timestamp >= now

Wit_C15 ==
    /\ pc = "overtime"
    /\ Len(roster) = 2
    /\ idx = 2
    /\ Evaluate(roster[1]).burnoutRisk = 70
    /\ cur.burnoutRisk = 71
    /\ Len(emails) = 1
    /\ IsBurnoutEmail(emails[1])
    /\ emails[1].memberEmail = cur.memberEmail

\* no dedup key of an overtime email for the member was present when the pass started
NoOvertimeKeyAtStart(memberEmail) ==
    \A k \in startInfo.keys0 : ~(k[1] = "overtime_email" /\ k[2] = memberEmail)

\* an overtime email about the member and the week was written since the instant t
OvertimeEmailSince(memberEmail, week, t) ==
    \E i \in 1..Len(emails) :
        /\ IsOvertimeEmail(emails[i])
        /\ emails[i].memberEmail = memberEmail
        /\ emails[i].weekStart = week
        /\ emails[i].timestamp >= t

\* no earlier pass has left an overtime email about the member and the week without its key
\* (a closed page or a failed setItem): such an email carries the timestamp of its own pass,
\* which may be the instant at which the next pass starts
NoUnkeyedOvertimeEmail(memberEmail, week) ==
    OvertimeEmailKey(memberEmail, IsoDate(week)) \notin lostKeys

\* C17: an overtime email is handed to the output store only for a weekly overtime count of
\* at least 3 and only without its dedup key; every stored overtime email carries a count of
\* at least 3; and a complete failure-free pass has written an overtime email for a member
\* whose key was absent, and of whom no unkeyed email of the week was left behind, exactly if
\* that member's weekly overtime count is at least 3.
Thm_C17 ==
    /\ pc = "overtimeEmail" =>
        /\ ot >= 3
        /\ pending.overtimeCount = ot
        /\ OvertimeEmailKey(cur.memberEmail, IsoDate(weekStart)) \notin lsEmailKeys
    /\ \A i \in 1..Len(emails) : IsOvertimeEmail(emails[i]) => emails[i].overtimeCount >= 3
    /\ (pc = "idle" /\ lastRun.valid) =>
        \A i \in 1..Len(roster) :
            (/\ NoOvertimeKeyAtStart(EmailOf(roster[i]))
             /\ NoUnkeyedOvertimeEmail(EmailOf(roster[i]), lastRun.week)) =>
                (OvertimeEmailSince(EmailOf(roster[i]), lastRun.week, lastRun.start)
                    <=> OvertimeCount(roster[i], lastRun.week) >= 3)

Wit_C17 ==
    /\ pc = "idle"
    /\ lastRun.valid
    /\ Len(roster) = 2
    /\ OvertimeCount(roster[1], lastRun.week) = 2
    /\ OvertimeCount(roster[2], lastRun.week) = 3
    /\ NoOvertimeKeyAtStart(EmailOf(roster[1]))
    /\ NoOvertimeKeyAtStart(EmailOf(roster[2]))
    /\ NoUnkeyedOvertimeEmail(EmailOf(roster[1]), lastRun.week)
    /\ NoUnkeyedOvertimeEmail(EmailOf(roster[2]), lastRun.week)
    /\ OvertimeEmailSince(EmailOf(roster[2]), lastRun.week, lastRun.start)
    /\ ~OvertimeEmailSince(EmailOf(roster[1]), lastRun.week, lastRun.start)

\* the pass is past CHECK 1 of roster[idx]
PastNotify == pc \in {"burnoutEmail", "overtime", "fallback", "overtimeEmail"}

\* a supervisor alert of the session user about the member was written since the instant t
AlertSince(memberId, t) ==
    \E i \in 1..Len(notifications) :
        /\ IsSupervisorAlert(notifications[i], user.id, memberId)
        /\ notifications[i].timestamp >= t

\* C18: a supervisor_burnout_alert is handed to the output store only for a member with
\* wellbeingScore < 60, stressLevel high or isExhausted; and once CHECK 1 is over in a pass
\* that started without a recent alert, the pass has written the member's alert exactly if
\* one of the three holds.
Thm_C18 ==
    /\ pc = "addNotif" =>
        /\ (cur.wellbeingScore < 60 \/ cur.stressLevel = "high" \/ cur.isExhausted)
        /\ pending.burnoutMemberId = cur.memberId
    /\ (PastNotify /\ startInfo.noFresh) =>
        (AlertSince(cur.memberId, now)
            <=> (cur.wellbeingScore < 60 \/ cur.stressLevel = "high" \/ cur.isExhausted))

Wit_C18 ==
    /\ PastNotify
    /\ startInfo.fromEmpty
    /\ Len(roster) = 2
    /\ idx = 2
    /\ Evaluate(roster[1]).wellbeingScore = 59
    /\ Evaluate(roster[1]).stressLevel = "low"
    /\ ~Evaluate(roster[1]).isExhausted
    /\ cur.wellbeingScore = 60
    /\ cur.stressLevel = "low"
    /\ ~cur.isExhausted
    /\ Len(notifications) = 1
    /\ IsSupervisorAlert(notifications[1], user.id, roster[1].id)

(***************************************************************************)
(* Properties of the peer-help passes of a team.                           *)
(***************************************************************************)
\* the peer-help notifications addressed to userId that name memberId
PeerAlertsOf(userId, memberId) ==
    {i \in 1..Len(notifications) : IsPeerAlert(notifications[i], userId, memberId)}

\* a pass of the user has marked a day as checked
Checked(userId) == \E k \in lsPeerCheck : k[1] = userId

\* C12: in the team of member1 and member2 every peer-help notification is addressed to
\* member2 and names member1, there is never more than one, and there is exactly one once
\* the passes of both members have ended.
Thm_C12 ==
    roster = TeamOfTwo =>
        /\ \A i \in 1..Len(notifications) :
               notifications[i].type = "burnout_alert"
                   => /\ notifications[i].userId = "m2"
                      /\ notifications[i].burnoutMemberId = "m1"
                      /\ notifications[i].burnoutMemberEmail = s_member1
        /\ Cardinality(PeerAlertsOf("m2", "m1")) <= 1
        /\ (Checked("m1") /\ Checked("m2")) => Cardinality(PeerAlertsOf("m2", "m1")) = 1

Wit_C12 ==
    /\ roster = TeamOfTwo
    /\ pc = "idle"
    /\ Checked("m1")
    /\ <<"m2", FirstDay>> \in lsPeerCheck
    /\ <<"m2", FirstDay + 1>> \in lsPeerCheck
    /\ Len(notifications) = 1

\* C13: in the team of member1..member5 the peer-help notifications are addressed to member2
\* or member4 and name member1 or member5, at most one per pair, and a completed pass of
\* member2 or member4 leaves exactly one for each of the two; member1, member3 and member5
\* receive none.
Thm_C13 ==
    roster = TeamOfFive =>
        /\ \A i \in 1..Len(notifications) :
               notifications[i].type = "burnout_alert"
                   => /\ notifications[i].userId \in {"m2", "m4"}
                      /\ notifications[i].burnoutMemberId \in {"m1", "m5"}
        /\ \A u \in {"m2", "m4"}, m \in {"m1", "m5"} :
               /\ Cardinality(PeerAlertsOf(u, m)) <= 1
               /\ Checked(u) => Cardinality(PeerAlertsOf(u, m)) = 1

Wit_C13 ==
    /\ roster = TeamOfFive
    /\ pc = "idle"
    /\ \A u \in {"m1", "m2", "m3", "m4", "m5"} : Checked(u)
    /\ Len(notifications) = 4

\* lines 41-50 with the limits written out
EligibleHelper(u) ==
    LET email == UserEmail(u)
    IN /\ ~(WellbeingOf(email, u.analytics) < 60 \/ StressOf(email, u.analytics) = "high"
              \/ ExhaustedOf(email, u.analytics))
       /\ TaskCompletionOf(email, u.analytics) > 75

\* C16: a peer-help pass goes on to the roster only for a session user who is not burnt out
\* and whose taskCompletionRate is above 75, every peer-help notification is addressed to
\* such a user, and the pass of any other user ends without a notification for that user.
Thm_C16 ==
    /\ pc \in {"peerRoster", "peerExisting", "peerAdd"} => EligibleHelper(user)
    /\ \A i \in 1..Len(notifications) :
           notifications[i].type = "burnout_alert"
               => \E j \in 1..Len(roster) :
                      /\ roster[j].id = notifications[i].userId
                      /\ EligibleHelper(SessionOf(roster[j]))
    /\ outcome = "ineligible" =>
           /\ ~EligibleHelper(user)
           /\ \A i \in 1..Len(notifications) : notifications[i].userId # user.id
    /\ (outcome = "completed" /\ pc = "idle") => EligibleHelper(user)

Wit_C16 ==
    /\ roster = TeamAtLimit
    /\ user.id = "h2"
    /\ TaskCompletionOf(UserEmail(user), user.analytics) = 75
    /\ outcome = "ineligible"
    /\ <<"h2", IsoDate(clock)>> \in lsPeerCheck
    /\ Cardinality(PeerAlertsOf("h1", "m1")) = 1
    /\ TaskCompletionOf(<<120>>, roster[1].analytics) = 76

(***************************************************************************)
(* Properties of the synthesizer.                                          *)
(***************************************************************************)
\* C20: the value returned by generateConsistentValue lies between min and max, also when the
\* 32-bit hash of the identity and the seed is negative or is -2^31.
Thm_C20 ==
    call # NoCall => (call.min <= result /\ result <= call.max)

Wit_C20 ==
    /\ call.email = s_esmwejp
    /\ call.seed = 3
    /\ HashOf(call.email \o Digits(call.seed)) = [hi |-> 32768, lo |-> 0]
    /\ call.min = 50
    /\ call.max = 90
    /\ result = 89

(***************************************************************************)
(* Properties of the pass over stored documents.                           *)
(***************************************************************************)
\* 100 - wellbeingScore + (meetingHours > 15 ? 20 : 0) + (isExhausted ? 30 : 0)
RawRisk(m) ==
    100 - m.wellbeingScore + (IF m.meetingHours > 15 THEN 20 ELSE 0)
        + (IF m.isExhausted THEN 30 ELSE 0)

Clamped(x) == IF x < 0 THEN 0 ELSE IF x > 100 THEN 100 ELSE x

\* C21: the burnoutRisk of the member under evaluation is the raw sum cut to 0..100, also
\* for a stored wellbeingScore below 0 or above 100, and every burnoutRisk in the output
\* store lies in 0..100.
Thm_C21 ==
    /\ InMember => (cur.burnoutRisk = Clamped(RawRisk(cur)) /\ cur.burnoutRisk \in 0..100)
    /\ \A i \in 1..Len(notifications) : notifications[i].burnoutRisk \in 0..100
    /\ \A i \in 1..Len(emails) : IsBurnoutEmail(emails[i]) => emails[i].burnoutRisk \in 0..100

Wit_C21 ==
    /\ InMember
    /\ cur.wellbeingScore = 150
    /\ RawRisk(cur) = -20
    /\ cur.burnoutRisk = 0
    /\ \E i \in 1..Len(notifications) :
        notifications[i].wellbeingScore = -20 /\ notifications[i].burnoutRisk = 100

(***************************************************************************)
(* Properties of the supervisor's session.                                 *)
(***************************************************************************)
\* C22: the first invocation after "Clear Today's Monitoring Check" is not stopped by the
\* run gate: it becomes a pass that queries the roster.
CE_C22 == [][(cleared /\ ~cleared') => (outcome' = "running" /\ pc' = "roster")]_vars

\* C23: at no time are two invocations of the session suspended inside a pass: while one
\* is at an await, no other one has queried the roster.
CE_C23 == ~(pc # "idle" /\ other.pc # "idle")

\* the dedup keys for which the output store holds two alerts inside one window: two
\* supervisor alerts of a pair less than 24 hours apart, two threshold emails about a member
\* on one day, two overtime emails about a member for one week
DuplicateKeys ==
    {<<"supervisor_burnout_alert", notifications[p[1]].userId, notifications[p[1]].burnoutMemberId>> :
        p \in {q \in (1..Len(notifications)) \X (1..Len(notifications)) :
                  /\ q[1] < q[2]
                  /\ notifications[q[1]].type = "supervisor_burnout_alert"
                  /\ IsSupervisorAlert(notifications[q[2]], notifications[q[1]].userId,
                                       notifications[q[1]].burnoutMemberId)
                  /\ (notifications[q[2]].timestamp - notifications[q[1]].timestamp)
                         < FreshHours * 60}}
    \cup
    {BurnoutEmailKey(emails[p[1]].memberEmail, IsoDate(emails[p[1]].timestamp)) :
        p \in {q \in (1..Len(emails)) \X (1..Len(emails)) :
                  /\ q[1] < q[2]
                  /\ IsBurnoutEmail(emails[q[1]]) /\ IsBurnoutEmail(emails[q[2]])
                  /\ emails[q[1]].memberEmail = emails[q[2]].memberEmail
                  /\ IsoDate(emails[q[1]].timestamp) = IsoDate(emails[q[2]].timestamp)}}
    \cup
    {OvertimeEmailKey(emails[p[1]].memberEmail, IsoDate(emails[p[1]].weekStart)) :
        p \in {q \in (1..Len(emails)) \X (1..Len(emails)) :
                  /\ q[1] < q[2]
                  /\ IsOvertimeEmail(emails[q[1]]) /\ IsOvertimeEmail(emails[q[2]])
                  /\ emails[q[1]].memberEmail = emails[q[2]].memberEmail
                  /\ IsoDate(emails[q[1]].weekStart) = IsoDate(emails[q[2]].weekStart)}}

CE_C25 ==
    \A r \in {prevRun, lastRun} :
        (r.valid /\ pc # "idle") => ~(now > r.end /\ now < r.start + GateMinutes)

(***************************************************************************)
(* Properties of the daily gate of the peer-help pass.                     *)
(***************************************************************************)
\* a peer-help pass iterates the roster to its end
PeerCompletes == pc # "idle" /\ pc' = "idle" /\ outcome' = "completed"

\* an invocation finds the session user ineligible
PeerIneligible == pc = "idle" /\ passes' # passes /\ outcome' = "ineligible"

\* a peer-help pass ends in the catch block, or with the page
PeerFails == pc # "idle" /\ pc' = "idle" /\ outcome' \in {"aborted", "abandoned"}

\* the gate of lines 29-34 at the current time
PeerGateBlocks == <<user.id, IsoDate(clock)>> \in lsPeerCheck

\* C26 as stated: a pass that finishes on calendar day d, by ineligibility or by iterating the
\* whole roster, leaves the gate of day d set.
CE_C26 ==
    [][(PeerCompletes \/ PeerIneligible) => <<user.id, IsoDate(clock)>> \in lsPeerCheck']_vars

\* C26 as amended: a pass that finishes, by ineligibility or by iterating the whole roster,
\* sets the gate of the calendar day (UTC) on which it started, and nothing else sets a gate;
\* a pass that fails leaves the gates as they are; while the gate of the current day is set,
\* no invocation of the member starts a pass or touches a store; no gate of a later day is
\* set, so the first invocation of a day is not gated.
Thm_C26 ==
    [][/\ PeerCompletes => lsPeerCheck' = lsPeerCheck \cup {<<user.id, today>>}
       /\ PeerIneligible => lsPeerCheck' = lsPeerCheck \cup {<<user.id, IsoDate(clock)>>}
       /\ PeerFails => lsPeerCheck' = lsPeerCheck
       /\ lsPeerCheck' # lsPeerCheck => (PeerCompletes \/ PeerIneligible)
       /\ (pc = "idle" /\ PeerGateBlocks)
            => (pc' = "idle" /\ UNCHANGED <<notifications, emails, lsPeerCheck, lsEmailKeys,
                                             lsLastCheck, passes>>)
       /\ (pc = "idle" /\ ~PeerGateBlocks /\ outcome' # outcome)
            => (passes' = passes + 1 /\ outcome' \in {"running", "ineligible"})
       /\ \A k \in lsPeerCheck' : k[2] <= IsoDate(clock')
       /\ (pc # "idle" => today <= IsoDate(clock))]_vars

Wit_C26 ==
    /\ pc = "idle"
    /\ outcome = "gated"
    /\ PeerGateBlocks
    /\ <<user.id, IsoDate(clock) - 1>> \in lsPeerCheck
    /\ Len(notifications) > 0

(***************************************************************************)
(* Properties of the resumption after a pass that did not complete.        *)
(***************************************************************************)
\* a failure-free pass has completed after an earlier pass was abandoned or failed
Resumed == pc = "idle" /\ lastRun.valid /\ faults > 0

\* every record of the output store was written on the day of the last pass, the overtime
\* emails for its week
OneWindow ==
    /\ IsoDate(lastRun.start) = IsoDate(lastRun.end)
    /\ \A i \in 1..Len(notifications) :
            IsoDate(notifications[i].timestamp) = IsoDate(lastRun.start)
    /\ \A i \in 1..Len(emails) :
            /\ IsoDate(emails[i].timestamp) = IsoDate(lastRun.start)
            /\ IsOvertimeEmail(emails[i]) => emails[i].weekStart = lastRun.week

\* the records of the output store about one roster document
AlertsAbout(doc) ==
    {i \in 1..Len(notifications) : IsSupervisorAlert(notifications[i], user.id, doc.id)}
ThresholdEmailsAbout(doc) ==
    {i \in 1..Len(emails) : IsBurnoutEmail(emails[i]) /\ emails[i].memberEmail = EmailOf(doc)}
OvertimeEmailsAbout(doc) ==
    {i \in 1..Len(emails) : IsOvertimeEmail(emails[i]) /\ emails[i].memberEmail = EmailOf(doc)}

\* the output store holds what one uninterrupted failure-free pass over the roster writes
AsOnePass ==
    \A i \in 1..Len(roster) :
        /\ Cardinality(AlertsAbout(roster[i]))
                = IF Evaluate(roster[i]).isBurntOut THEN 1 ELSE 0
        /\ Cardinality(ThresholdEmailsAbout(roster[i]))
                = IF Evaluate(roster[i]).burnoutRisk > BurnoutThreshold THEN 1 ELSE 0
        /\ Cardinality(OvertimeEmailsAbout(roster[i]))
                = IF OvertimeCount(roster[i], lastRun.week) >= OvertimeThreshold THEN 1 ELSE 0

\* no overtime email was sent on a count that came from the catch block of getOvertimeThisWeek
CountsFromQuery ==
    \A i \in 1..Len(roster) : \A j \in OvertimeEmailsAbout(roster[i]) :
        emails[j].overtimeCount = OvertimeCount(roster[i], emails[j].weekStart)

UpTo(n) == [k \in 1..n |-> k]

\* C28: a pass that has passed its gate ends; while it runs, the members evaluated so far are
\* the first idx documents of the roster, each once and in roster order, and the current
\* member is the last of them; a pass that ends without any failure has completed, has
\* evaluated every document of the roster exactly once in roster order, and has then stored
\* its start time as the last-check marker.
Thm_C28 ==
    /\ [](pc \notin {"idle", "roster"} =>
            /\ idx \in 1..Len(roster)
            /\ evaluated = UpTo(idx)
            /\ cur = Evaluate(roster[idx]))
    /\ []((pc = "idle" /\ outcome \in {"completed", "aborted", "abandoned"} /\ failures = {}) =>
            /\ outcome = "completed"
            /\ evaluated = UpTo(Len(roster))
            /\ lastRun.valid
            /\ lsLastCheck = Digits(lastRun.start))
    /\ [][(pc # "idle" /\ pc' = "idle" /\ outcome' = "completed") =>
            /\ lsLastCheck' = Digits(now)
            /\ evaluated' = UpTo(Len(roster))]_vars
    /\ (pc # "idle") ~> (pc = "idle")

Wit_C28 ==
    /\ pc = "idle"
    /\ outcome = "completed"
    /\ failures = {}
    /\ Len(roster) = 2
    /\ evaluated = <<1, 2>>
    /\ lsLastCheck = Digits(lastRun.start)
    /\ midTicks > 0

(***************************************************************************)
(* Properties of the iteration order.                                      *)
(***************************************************************************)
\* the alerts of the stores: kind, subject and value
AlertsWritten ==
    {<<"notification", notifications[i].burnoutMemberId, notifications[i].burnoutRisk>> :
        i \in 1..Len(notifications)}
    \cup {<<"threshold", emails[i].memberEmail, emails[i].burnoutRisk>> :
            i \in {j \in 1..Len(emails) : IsBurnoutEmail(emails[j])}}
    \cup {<<"overtime", emails[i].memberEmail, emails[i].overtimeCount>> :
            i \in {j \in 1..Len(emails) : IsOvertimeEmail(emails[j])}}

\* the alerts a failure-free pass writes into empty stores within one instant, when it
\* iterates the documents in the order docs; keys are the email keys set so far
RECURSIVE AlertsInOrder(_, _, _)
AlertsInOrder(docs, keys, week) ==
    IF docs = <<>> THEN {}
    ELSE LET c == Evaluate(Head(docs))
             n == OvertimeCount(Head(docs), week)
             kB == <<"burnout_email", c.memberEmail>>
             kO == <<"overtime_email", c.memberEmail>>
             mB == c.burnoutRisk > BurnoutThreshold /\ kB \notin keys
             mO == n >= OvertimeThreshold /\ kO \notin keys
         IN (IF c.isBurntOut THEN {<<"notification", c.memberId, c.burnoutRisk>>} ELSE {})
            \cup (IF mB THEN {<<"threshold", c.memberEmail, c.burnoutRisk>>} ELSE {})
            \cup (IF mO THEN {<<"overtime", c.memberEmail, n>>} ELSE {})
            \cup AlertsInOrder(Tail(docs),
                               keys \cup (IF mB THEN {kB} ELSE {}) \cup (IF mO THEN {kO} ELSE {}),
                               week)

\* the documents of the roster in the order of StoreDocs
Reordered ==
    Pick(StoreDocs, {k \in 1..Len(StoreDocs) : \E i \in 1..Len(roster) : roster[i] = StoreDocs[k]})

\* a failure-free pass has run within one instant from empty stores
OnePassFromEmpty ==
    /\ pc = "idle"
    /\ lastRun.valid
    /\ lastRun.fromEmpty
    /\ lastRun.start = lastRun.end

\* C29: the alerts a failure-free pass has written are those of a pass that iterates the same
\* documents in another order.
CE_C29 ==
    OnePassFromEmpty => AlertsWritten = AlertsInOrder(Reordered, {}, lastRun.week)

(***************************************************************************)
(* Properties of the weekly overtime window.                               *)
(***************************************************************************)
\* the overtime records of the document dated in the seven days from the local Monday
InWeek(doc, weekStartT, zone) ==
    LET monday == (weekStartT + zone) \div MinutesPerDay
    IN Cardinality({i \in 1..Len(doc.overtime) :
                        doc.overtime[i] >= monday /\ doc.overtime[i] < monday + 7})

\* C30: the count on which an overtime email is sent, when the overtime query succeeded, is
\* the number of the member's overtime records dated in [weekStart, weekStart + 7 days).
CE_C30 ==
    (pc = "overtimeEmail" /\ <<"overtimeQuery", idx>> \notin failures)
        => (ot = InWeek(roster[idx], weekStart, tz)
            /\ pending.overtimeCount = InWeek(roster[idx], weekStart, tz))

(***************************************************************************)
(* Properties of the overtime count of a member without records.           *)
(***************************************************************************)
\* C31: after a complete failure-free pass, every member without overtime records whose
\* fallback count is at least 3 has an overtime email in the output store.
CE_C31 ==
    (pc = "idle" /\ lastRun.valid) =>
        \A i \in 1..Len(roster) :
            (roster[i].overtime = <<>>
                /\ OvertimeFallback(EmailOf(roster[i])) >= OvertimeThreshold)
            => OvertimeEmailsAbout(roster[i]) # {}

(***************************************************************************)
(* Properties of the week start.                                           *)
(***************************************************************************)
\* the local calendar day of an instant, and the local day of the Monday of its week
LocalDay(t) == (t + OffsetAt(t)) \div MinutesPerDay
LocalMonday(t) == LocalDay(t) - ((LocalDay(t) + 7000) % 7)

\* the week start of a running pass is the local midnight that begins the Monday on or before
\* the day of the pass, and it is not later than the start of the pass
MondayMidnight ==
    /\ (weekStart + OffsetAt(weekStart)) % MinutesPerDay = 0
    /\ GetDay(weekStart, OffsetAt(weekStart)) = 1
    /\ LocalDay(weekStart) = LocalMonday(now)
    /\ LocalDay(weekStart)
         = LocalDay(now) - (IF GetDay(now, OffsetAt(now)) = 0 THEN 6
                            ELSE GetDay(now, OffsetAt(now)) - 1)
    /\ weekStart <= now

\* a pass that runs in the local week of the last complete pass uses its overtime week key
SameWeekKey ==
    (lastRun.valid /\ LocalMonday(lastRun.start) = LocalMonday(now))
        => IsoDate(lastRun.week) = IsoDate(weekStart)

\* C32 as stated: the week start of a running pass is midnight of the most recent Monday, the
\* pass starts less than 7 days after it, and the passes of one week use one week key.
CE_C32 ==
    pc # "idle" =>
        /\ MondayMidnight
        /\ now < weekStart + 7 * MinutesPerDay
        /\ SameWeekKey

\* C32 as amended: the week start of a running pass is the local midnight of the most recent
\* Monday; the pass starts less than 7 days of local time after it, which is less than 7 days
\* of elapsed time when the zone does not change its offset in between and less than 7 days
\* and one hour otherwise; the passes of one local week use one week key.
Thm_C32 ==
    pc # "idle" =>
        /\ MondayMidnight
        /\ now + OffsetAt(now) < weekStart + OffsetAt(weekStart) + 7 * MinutesPerDay
        /\ (OffsetAt(now) = OffsetAt(weekStart) => now < weekStart + 7 * MinutesPerDay)
        /\ now < weekStart + 7 * MinutesPerDay + 60
        /\ (dst = NoShift => weekStart = WeekStartOf(now, tz))
        /\ SameWeekKey

Wit_C32 ==
    /\ pc # "idle"
    /\ lastRun.valid
    /\ lastRun.start < now
    /\ LocalMonday(lastRun.start) = LocalMonday(now)
    /\ GetDay(now, OffsetAt(now)) = 0
    /\ OffsetAt(now) # OffsetAt(weekStart)
    /\ now >= weekStart + 7 * MinutesPerDay

(***************************************************************************)
(* Properties of the two alerting surfaces together.                       *)
(***************************************************************************)
\* the roster members about whom the supervisor, or the helper h, holds an alert
SupervisorFlagged ==
    {notifications[i].burnoutMemberId :
        i \in {j \in 1..Len(notifications) :
                  notifications[j].type = "supervisor_burnout_alert"}}
PeerFlaggedBy(h) ==
    {notifications[i].burnoutMemberId :
        i \in {j \in 1..Len(notifications) :
                  notifications[j].type = "burnout_alert" /\ notifications[j].userId = h.id}}

\* a supervisor pass has iterated the whole roster; a pass of the helper h has
SupervisorDone == lsLastCheck # <<>>
PeerDone(h) == \E k \in lsPeerCheck : k[1] = h.id

\* the roster entries other than the helper's own
OthersThan(h) == {roster[i].id : i \in {j \in 1..Len(roster) : EmailOf(roster[j]) # EmailOf(h)}}

\* C33: the members flagged by either surface are flagged by the other as soon as its pass
\* over the roster is complete: an eligible helper's alerts are about members the supervisor
\* pass flags, and the supervisor's alerts about other members than the helper are about
\* members the helper's pass flags.
Thm_C33 ==
    \A i \in 1..Len(roster) :
        IsEligible(SessionOf(roster[i])) =>
            /\ SupervisorDone => PeerFlaggedBy(roster[i]) \subseteq SupervisorFlagged
            /\ PeerDone(roster[i])
                => (SupervisorFlagged \cap OthersThan(roster[i])) \subseteq PeerFlaggedBy(roster[i])

Wit_C33 ==
    /\ pc = "idle"
    /\ Len(roster) = 2
    /\ SupervisorDone
    /\ PeerDone(roster[1])
    /\ IsEligible(SessionOf(roster[1]))
    /\ PeerFlaggedBy(roster[1]) = {roster[2].id}
    /\ SupervisorFlagged = {roster[2].id}

(***************************************************************************)
(* Properties of the threshold email against the burnout classification.   *)
(***************************************************************************)
\* the stored values of a member document show a burnout state
StoredBurntOut(doc) ==
    \/ doc.analytics.wellbeingScore < 60
    \/ doc.analytics.stressLevel = "high"
    \/ doc.analytics.isExhausted

\* C34: a member under evaluation whose burnoutRisk is above 70 is classified as burnt
\* out, and every threshold email in the output store is about a roster member whose stored
\* values show a burnout state and about whom the supervisor holds a burnout alert.
Thm_C34 ==
    /\ InMember =>
        (cur.burnoutRisk > 70 =>
            /\ cur.isBurntOut
            /\ cur.wellbeingScore < 60 \/ cur.stressLevel = "high" \/ cur.isExhausted)
    /\ \A i \in 1..Len(emails) :
        IsBurnoutEmail(emails[i]) =>
            \E j \in 1..Len(roster) :
                /\ EmailOf(roster[j]) = emails[i].memberEmail
                /\ StoredBurntOut(roster[j])
                /\ roster[j].id \in SupervisorFlagged

Wit_C34 ==
    /\ pc = "idle"
    /\ \E i \in 1..Len(emails) :
        /\ IsBurnoutEmail(emails[i])
        /\ emails[i].burnoutRisk = 71
        /\ \E j \in 1..Len(roster) :
            /\ EmailOf(roster[j]) = emails[i].memberEmail
            /\ roster[j].analytics.wellbeingScore = 49
    /\ \E j \in 1..Len(roster) :
        /\ roster[j].analytics.wellbeingScore = 50
        /\ roster[j].id \in SupervisorFlagged
        /\ \A i \in 1..Len(emails) : emails[i].memberEmail # EmailOf(roster[j])

(***************************************************************************)
(* Frame of the passes on the stores.                                      *)
(***************************************************************************)
\* C35: every step of a supervisor pass or of a peer-help pass leaves each notification
\* record and each email record in place and unchanged, adding records at the end only,
\* and leaves every email dedup key and every peer-check key of the browser store in it.
Thm_C35 ==
    [][/\ Len(notifications) <= Len(notifications')
       /\ \A i \in 1..Len(notifications) : notifications'[i] = notifications[i]
       /\ Len(emails) <= Len(emails')
       /\ \A i \in 1..Len(emails) : emails'[i] = emails[i]
       /\ lsEmailKeys \subseteq lsEmailKeys'
       /\ lsPeerCheck \subseteq lsPeerCheck']_vars

Wit_C35 ==
    /\ pc = "idle"
    /\ outcome = "completed"
    /\ user # SupervisorUser
    /\ Cardinality(lsPeerCheck) >= 2
    /\ lsEmailKeys # {}
    /\ emails # <<>>
    /\ \E i, j \in 1..Len(notifications) :
        /\ notifications[i].type = "supervisor_burnout_alert"
        /\ notifications[j].type = "burnout_alert"
        /\ i < j

(***************************************************************************)
(* The hash of the synthesizer against the polynomial hash on signed       *)
(* 32-bit integers.                                                        *)
(***************************************************************************)
\* the greatest value of hash & hash, line 11
MaxInt32 == 2147483647
MinInt32 == -2147483647 - 1

\* a + b wrapped to a signed 32-bit integer
WrapAdd(a, b) ==
    IF a > 0 /\ b > 0 /\ a > MaxInt32 - b THEN (a - MaxInt32 - 1) + (b - MaxInt32 - 1)
    ELSE IF a < 0 /\ b < 0 /\ a < MinInt32 - b THEN (a + MaxInt32 + 1) + (b + MaxInt32 + 1)
    ELSE a + b

\* 31 * h = h + 2 * (h + 2 * (h + 2 * (h + 2 * h))), wrapped at every sum
Twice(x) == WrapAdd(x, x)
Times31(h) == WrapAdd(h, Twice(WrapAdd(h, Twice(WrapAdd(h, Twice(WrapAdd(h, Twice(h))))))))

\* h(0) = 0, h(i+1) = 31 * h(i) + charCode(s[i]) wrapped to a signed 32-bit integer
RECURSIVE PolyFrom(_, _, _)
PolyFrom(h, str, i) ==
    IF i > Len(str) THEN h ELSE PolyFrom(WrapAdd(Times31(h), str[i]), str, i + 1)

PolyHash(str) == PolyFrom(0, str, 1)

\* |h| mod n; |h| is 2^31 for the least 32-bit integer
AbsModInt(h, n) == IF h >= 0 THEN h % n ELSE (((0 - (h + 1)) % n) + 1) % n

\* the signed value of a 32-bit pattern held in two limbs
SignedOf(h) ==
    IF IsNegative32(h) THEN (h.hi - Limb) * Limb + h.lo ELSE h.hi * Limb + h.lo

\* C36: for the string of the identity followed by the decimal digits of the seed, the hash
\* of generateConsistentValue is the polynomial hash with multiplier 31 wrapped to a signed
\* 32-bit integer at every step, and the value returned is min + (|hash| mod (max - min + 1)).
Thm_C36 ==
    call # NoCall =>
        LET str == call.email \o Digits(call.seed)
            h == PolyHash(str)
        IN /\ SignedOf(HashOf(str)) = h
           /\ result = call.min + AbsModInt(h, call.max - call.min + 1)

Wit_C36 ==
    /\ call = [email |-> s_member1, seed |-> 999, min |-> 0, max |-> 100]
    /\ PolyHash(s_member1 \o <<57, 57, 57>>) = -1342254878
    /\ result = 26

(***************************************************************************)
(* Properties of the scenario lookup.                                      *)
(***************************************************************************)
\* the pattern pairs in their order, each with the six fields of its snapshot: wellbeingScore,
\* stressLevel, taskCompletionRate, isExhausted, meetingHours, overtimeCount
PatternPairs == <<
    [a |-> "member1", b |-> "burnout", fields |-> <<45, "high", 55, TRUE, 18, 3>>],
    [a |-> "member2", b |-> "helper", fields |-> <<85, "low", 92, FALSE, 10, 1>>],
    [a |-> "member3", b |-> "struggling", fields |-> <<68, "medium", 65, FALSE, 14, 2>>],
    [a |-> "member4", b |-> "productive", fields |-> <<78, "low", 88, FALSE, 12, 0>>],
    [a |-> "member5", b |-> "stressed", fields |-> <<55, "high", 82, TRUE, 16, 4>>] >>

\* the code units of the letters and digits of the patterns
CodeOf(ch) ==
    CASE ch = "a" -> 97 [] ch = "b" -> 98 [] ch = "c" -> 99 [] ch = "d" -> 100 [] ch = "e" -> 101
      [] ch = "g" -> 103 [] ch = "h" -> 104 [] ch = "i" -> 105 [] ch = "l" -> 108
      [] ch = "m" -> 109 [] ch = "n" -> 110 [] ch = "o" -> 111 [] ch = "p" -> 112
      [] ch = "r" -> 114 [] ch = "s" -> 115 [] ch = "t" -> 116 [] ch = "u" -> 117
      [] ch = "v" -> 118 [] ch = "1" -> 49 [] ch = "2" -> 50 [] ch = "3" -> 51
      [] ch = "4" -> 52 [] ch = "5" -> 53
CodesOf(str) == [i \in 1..Len(str) |-> CodeOf(SubSeq(str, i, i))]

\* the pattern occurs in the identity when upper-case letters count as their lower-case ones
SameLetter(x, y) == x = y \/ (x >= 65 /\ x <= 90 /\ x + 32 = y)
OccursIn(pat, identity) ==
    \E start \in 1..Len(identity) :
        /\ start + Len(pat) - 1 <= Len(identity)
        /\ \A j \in 1..Len(pat) : SameLetter(identity[start + j - 1], CodesOf(pat)[j])

PairOccurs(k, identity) ==
    OccursIn(PatternPairs[k].a, identity) \/ OccursIn(PatternPairs[k].b, identity)

FieldsOf(snapshot) ==
    <<snapshot.wellbeingScore, snapshot.stressLevel, snapshot.taskCompletionRate,
      snapshot.isExhausted, snapshot.meetingHours, snapshot.overtimeCount>>

\* C37: the lookup returns the six fields of the first pattern pair, in the order of the
\* pairs, one of whose patterns occurs in the lower-cased identity, and null when no pattern
\* occurs; all six fields come from that one pair.
Thm_C37 ==
    call # NoCall =>
        /\ result.matched <=> \E k \in 1..Len(PatternPairs) : PairOccurs(k, call.email)
        /\ \A k \in 1..Len(PatternPairs) :
            (PairOccurs(k, call.email) /\ \A m \in 1..(k - 1) : ~PairOccurs(m, call.email))
                => FieldsOf(result) = PatternPairs[k].fields

Wit_C37 ==
    \* Member2-Burnout
    /\ call.email = <<77, 101, 109, 98, 101, 114, 50, 45, 66, 117, 114, 110, 111, 117, 116>>
    /\ PairOccurs(1, call.email)
    /\ PairOccurs(2, call.email)
    /\ result.matched
    /\ FieldsOf(result) = <<45, "high", 55, TRUE, 18, 3>>
====
